---- MODULE Spec2Model ----
(***************************************************************************)
(* mysqldump-to-parquet: the three-stage pipeline of main.rs (reader /     *)
(* reassembler, parser thread) and parquet_writer.rs (writer thread),      *)
(* connected by two bounded crossbeam channels.                            *)
(*                                                                         *)
(* Text is modelled as a sequence of atoms: an atom stands for a run of    *)
(* characters ("CREATE TABLE", "A", "(", ")", ";", " ", ...).  A line is *)
(* a sequence of atoms, a statement is the concatenation of lines.         *)
(***************************************************************************)
EXTENDS Integers, Sequences, FiniteSets, TLC

(***************************************************************************)
(* Bounds of the model.                                                    *)
(***************************************************************************)
\* number of input blocks (a block is a comment, a statement or a fragment)
MaxBlocks == 3
\* capacity of the statement channel in the model (bounded(1000) in main.rs)
StatementQueueCap == 2
\* capacity of the event channel in the model (bounded(100) in parquet_writer.rs)
EventQueueCap == 1
\* number of output operations (create / open / write / close) that may fail
MaxIoFaults == 1

(***************************************************************************)
(* Generic helpers.                                                        *)
(***************************************************************************)
None == [some |-> FALSE]

Last(s) == s[Len(s)]

RECURSIVE Flatten(_)
Flatten(ss) == IF ss = <<>> THEN <<>> ELSE Head(ss) \o Flatten(Tail(ss))

RECURSIVE SeqsUpTo(_, _)
SeqsUpTo(S, n) ==
    IF n = 0 THEN {<<>>}
    ELSE LET shorter == SeqsUpTo(S, n - 1)
         IN shorter \cup {Append(s, x) : s \in {t \in shorter : Len(t) = n - 1}, x \in S}

IsPrefix(s, t) == Len(s) <= Len(t) /\ SubSeq(t, 1, Len(s)) = s

(***************************************************************************)
(* str helpers used by the read loop of main (main.rs:122-135).            *)
(***************************************************************************)
RECURSIVE trim_start(_)
trim_start(line) ==
    IF line # <<>> /\ Head(line) = " " THEN trim_start(Tail(line)) ELSE line

RECURSIVE trim_end(_)
trim_end(line) ==
    IF line # <<>> /\ Last(line) = " " THEN trim_end(SubSeq(line, 1, Len(line) - 1))
    ELSE line

trim(line) == trim_end(trim_start(line))

starts_with(s, atom) == s # <<>> /\ Head(s) = atom

\* atoms whose last character is ';'
SemicolonAtoms == {";", "*/;"}

ends_with_semicolon(s) == s # <<>> /\ Last(s) \in SemicolonAtoms

\* faulty variant: a block comment is not discarded
is_ignored_LineCommentsOnly(line) ==
    \/ starts_with(line, "--")
    \/ line = <<>>

\* line.starts_with("--") || line.starts_with("/*") && line.ends_with("*/;") || line.is_empty()
is_ignored(line) ==
    \/ starts_with(line, "--")
    \/ starts_with(line, "/*") /\ line # <<>> /\ Last(line) = "*/;"
    \/ line = <<>>

(***************************************************************************)
(* cleanup_key (main.rs:154-177).                                          *)
(***************************************************************************)
\* atoms whose characters contain "KEY "; of the atoms of a line given to
\* cleanup_key only "(" and ")" hold a parenthesis
KeyAtoms == {"KEY ", "PRIMARY KEY ", "UNIQUE KEY ", "FOREIGN KEY "}

\* line.contains("KEY ")
contains_key(line) == \E i \in 1..Len(line) : line[i] \in KeyAtoms

\* faulty variant: the loop runs on every line
cleanup_key_EveryLine(line) ==
    LET loop[i \in 0..Len(line)] ==
            IF i = 0 THEN [depth |-> 0, ret |-> <<>>]
            ELSE LET c  == line[i]
                     d  == loop[i - 1].depth + (IF c = "(" THEN 1 ELSE 0)
                                             - (IF c = ")" THEN 1 ELSE 0)
                 IN [depth |-> d,
                     ret |-> IF (c = ")" /\ d = 1) \/ d >= 2 THEN loop[i - 1].ret
                             ELSE Append(loop[i - 1].ret, c)]
    IN loop[Len(line)].ret

RECURSIVE cleanup_key_loop(_, _, _)
cleanup_key_loop(rest, depth, ret) ==
    IF rest = <<>> THEN ret
    ELSE LET c  == Head(rest)
             d1 == IF c = "(" THEN depth + 1 ELSE depth
             d2 == IF c = ")" THEN d1 - 1 ELSE d1
         IN IF c = ")" /\ d2 = 1 THEN cleanup_key_loop(Tail(rest), d2, ret)
            ELSE IF d2 >= 2 THEN cleanup_key_loop(Tail(rest), d2, ret)
            ELSE cleanup_key_loop(Tail(rest), d2, Append(ret, c))

cleanup_key(line) ==
    IF contains_key(line) THEN cleanup_key_loop(line, 0, <<>>) ELSE line

(***************************************************************************)
(* The characters of the number and string literals, and str::parse for    *)
(* the integer types (line_parser.rs:239,248; parquet_writer.rs:175-181).  *)
(***************************************************************************)
chars(s) ==
    CASE s = "0" -> <<"0">>
      [] s = "1" -> <<"1">>
      [] s = "7" -> <<"7">>
      [] s = "123" -> <<"1", "2", "3">>
      [] s = "2.5" -> <<"2", ".", "5">>
      [] s = "007" -> <<"0", "0", "7">>
      [] s = "9223372036854775808" -> <<"9", "2", "2", "3", "3", "7", "2", "0", "3", "6", "8", "5", "4", "7", "7", "5", "8", "0", "8">>
      [] s = "x" -> <<"x">>
      [] s = "foo" -> <<"f", "o", "o">>
      [] s = "2012-01-02 12:55:22" -> <<"2", "0", "1", "2", "-", "0", "1", "-", "0", "2", " ", "1", "2", ":", "5", "5", ":", "2", "2">>
      [] s = "2012/01/02T12.55.22" -> <<"2", "0", "1", "2", "/", "0", "1", "/", "0", "2", "T", "1", "2", ".", "5", "5", ".", "2", "2">>
      [] s = "2012-01-02 12:55:22.5" -> <<"2", "0", "1", "2", "-", "0", "1", "-", "0", "2", " ", "1", "2", ":", "5", "5", ":", "2", "2", ".", "5">>
      [] s = "2012-+1-02 12:55:22" -> <<"2", "0", "1", "2", "-", "+", "1", "-", "0", "2", " ", "1", "2", ":", "5", "5", ":", "2", "2">>
      [] s = "2012-02-30 12:55:22" -> <<"2", "0", "1", "2", "-", "0", "2", "-", "3", "0", " ", "1", "2", ":", "5", "5", ":", "2", "2">>
      [] s = "2012-01-02 24:00:00" -> <<"2", "0", "1", "2", "-", "0", "1", "-", "0", "2", " ", "2", "4", ":", "0", "0", ":", "0", "0">>
      [] s = "2012-01-02" -> <<"2", "0", "1", "2", "-", "0", "1", "-", "0", "2">>
      [] s = "2012-0a-02 12:55:22" -> <<"2", "0", "1", "2", "-", "0", "a", "-", "0", "2", " ", "1", "2", ":", "5", "5", ":", "2", "2">>
      [] s = "2000-02-29 00:00:00" -> <<"2", "0", "0", "0", "-", "0", "2", "-", "2", "9", " ", "0", "0", ":", "0", "0", ":", "0", "0">>
      [] s = "1970-01-01 00:00:00" -> <<"1", "9", "7", "0", "-", "0", "1", "-", "0", "1", " ", "0", "0", ":", "0", "0", ":", "0", "0">>
      [] s = "1969-12-31 23:59:59" -> <<"1", "9", "6", "9", "-", "1", "2", "-", "3", "1", " ", "2", "3", ":", "5", "9", ":", "5", "9">>
      [] s = "1999-12-31 23:59:59" -> <<"1", "9", "9", "9", "-", "1", "2", "-", "3", "1", " ", "2", "3", ":", "5", "9", ":", "5", "9">>
      [] s = "2024-03-01 00:00:01" -> <<"2", "0", "2", "4", "-", "0", "3", "-", "0", "1", " ", "0", "0", ":", "0", "0", ":", "0", "1">>
      [] OTHER -> <<>>

digit_value(c) ==
    CASE c = "0" -> 0 [] c = "1" -> 1 [] c = "2" -> 2 [] c = "3" -> 3 [] c = "4" -> 4
      [] c = "5" -> 5 [] c = "6" -> 6 [] c = "7" -> 7 [] c = "8" -> 8 [] c = "9" -> 9
      [] OTHER -> -1

is_digits(cs) == cs # <<>> /\ \A i \in 1..Len(cs) : digit_value(cs[i]) >= 0

RECURSIVE strip_zeros(_)
strip_zeros(cs) ==
    IF Len(cs) > 1 /\ Head(cs) = "0" THEN strip_zeros(Tail(cs)) ELSE cs

\* the digits of i64::MAX
I64MaxDigits == <<"9", "2", "2", "3", "3", "7", "2", "0", "3", "6", "8", "5", "4", "7", "7", "5", "8", "0", "7">>

\* a < b for digits of the same length
RECURSIVE digits_less(_, _)
digits_less(a, b) ==
    IF a = <<>> THEN FALSE
    ELSE IF Head(a) # Head(b) THEN digit_value(Head(a)) < digit_value(Head(b))
    ELSE digits_less(Tail(a), Tail(b))

RECURSIVE digits_number(_, _)
digits_number(cs, acc) ==
    IF cs = <<>> THEN acc ELSE digits_number(Tail(cs), acc * 10 + digit_value(Head(cs)))

\* <i64 as FromStr>::from_str of digits without a sign: an error when the
\* number is above i64::MAX = 9223372036854775807
parse_i64(cs) ==
    LET ds == strip_zeros(cs)
    IN IF ~is_digits(cs) THEN [ok |-> FALSE, val |-> 0]
       ELSE IF Len(ds) > Len(I64MaxDigits)
               \/ (Len(ds) = Len(I64MaxDigits) /\ digits_less(I64MaxDigits, ds))
       THEN [ok |-> FALSE, val |-> 0]
       ELSE [ok |-> TRUE, val |-> digits_number(ds, 0)]

\* <u32 as FromStr>::from_str and <i32 as FromStr>::from_str of a field of
\* a date: a sign ('+', and '-' when signed) may precede the digits
parse_field(cs, signed) ==
    LET sign == IF cs # <<>> /\ (Head(cs) = "+" \/ (signed /\ Head(cs) = "-"))
                THEN Head(cs) ELSE ""
        ds   == IF sign = "" THEN cs ELSE Tail(cs)
    IN IF ~is_digits(ds) THEN [ok |-> FALSE, val |-> 0]
       ELSE [ok |-> TRUE,
             val |-> IF sign = "-" THEN 0 - digits_number(ds, 0) ELSE digits_number(ds, 0)]

(***************************************************************************)
(* sqlparser's Parser::parse_sql with the MySQL dialect, as called at      *)
(* line_parser.rs:80: the text of a statement to an AST, or an error.  The *)
(* grammar kept here is the part of it that dumps use: CREATE TABLE with   *)
(* column definitions and key clauses, INSERT INTO ... VALUES, and other   *)
(* statements.  Whitespace separates tokens and is otherwise dropped.      *)
(***************************************************************************)
IdentAtoms == {"A", "B", "c", "d", "k", "Id"}

\* faulty variant: the value of an identifier folded to lower case
ident_value_Folded(atom) ==
    CASE atom = "A" -> "a"
      [] atom = "B" -> "b"
      [] atom = "c" -> "c"
      [] atom = "d" -> "d"
      [] atom = "k" -> "k"
      [] atom = "Id" -> "id"
      [] OTHER -> ""

ident_value(atom) ==
    CASE atom = "A" -> "A"
      [] atom = "B" -> "B"
      [] atom = "c" -> "c"
      [] atom = "d" -> "d"
      [] atom = "k" -> "k"
      [] atom = "Id" -> "Id"
      [] OTHER -> ""

\* the declared type of a column to the variant of sqlparser::ast::DataType
data_type_of(atom) ==
    CASE atom = "int"          -> [variant |-> "Int", custom |-> ""]
      [] atom = "bigint"       -> [variant |-> "BigInt", custom |-> ""]
      [] atom = "tinyint(1)"   -> [variant |-> "TinyInt", custom |-> ""]
      [] atom = "decimal(10,2)" -> [variant |-> "Decimal", custom |-> ""]
      [] atom = "varchar(255)" -> [variant |-> "Varchar", custom |-> ""]
      [] atom = "char(1)"      -> [variant |-> "Char", custom |-> ""]
      [] atom = "text"         -> [variant |-> "Text", custom |-> ""]
      [] atom = "longtext"     -> [variant |-> "Custom", custom |-> "longtext"]
      [] atom = "mediumtext"   -> [variant |-> "Custom", custom |-> "mediumtext"]
      [] atom = "json"         -> [variant |-> "JSON", custom |-> ""]
      [] atom = "blob"         -> [variant |-> "Blob", custom |-> ""]
      [] atom = "float"        -> [variant |-> "Float", custom |-> ""]
      [] atom = "double"       -> [variant |-> "Double", custom |-> ""]
      [] atom = "date"         -> [variant |-> "Date", custom |-> ""]
      [] atom = "datetime"     -> [variant |-> "Datetime", custom |-> ""]
      [] atom = "timestamp"    -> [variant |-> "Timestamp", custom |-> ""]
      [] atom = "bool"         -> [variant |-> "Bool", custom |-> ""]
      [] atom = "boolean"      -> [variant |-> "Boolean", custom |-> ""]
      [] atom = "enum('x')"    -> [variant |-> "Enum", custom |-> ""]
      [] atom = "smallint"     -> [variant |-> "SmallInt", custom |-> ""]
      [] atom = "int unsigned" -> [variant |-> "UnsignedInt", custom |-> ""]
      [] atom = "numeric"      -> [variant |-> "Numeric", custom |-> ""]
      [] atom = "real"         -> [variant |-> "Real", custom |-> ""]
      [] atom = "double precision" -> [variant |-> "DoublePrecision", custom |-> ""]
      [] atom = "time"         -> [variant |-> "Time", custom |-> ""]
      [] atom = "geometry"     -> [variant |-> "Custom", custom |-> "geometry"]
      [] OTHER                 -> [variant |-> "", custom |-> ""]

\* a column option to the variant of sqlparser::ast::ColumnOption
column_option_of(atom) ==
    CASE atom = "NULL"         -> "Null"
      [] atom = "NOT NULL"     -> "NotNull"
      [] atom = "PRIMARY KEY " -> "UniquePrimary"
      [] atom = "UNIQUE"       -> "Unique"
      [] atom = "DEFAULT NULL" -> "Default"
      [] OTHER                 -> ""

\* number literals; the value of one with a '.' is kept in tenths (see
\* ColumnValue), and the literals here have one digit after the '.'
NumberAtoms == {"0", "1", "7", "123", "2.5", "007", "9223372036854775808"}

\* num.contains('.') and num.parse(): ok = FALSE is the Err of parse
number_of(atom) ==
    LET cs    == chars(atom)
        dot   == \E i \in 1..Len(cs) : cs[i] = "."
        at    == CHOOSE i \in 1..Len(cs) : cs[i] = "."
        whole == parse_i64(SubSeq(cs, 1, at - 1))
        tenth == parse_i64(SubSeq(cs, at + 1, Len(cs)))
    IN IF ~dot THEN [dot |-> FALSE, ok |-> parse_i64(cs).ok, val |-> parse_i64(cs).val]
       ELSE [dot |-> TRUE,
             ok  |-> whole.ok /\ tenth.ok /\ Len(cs) = at + 1,
             val |-> whole.val * 10 + tenth.val]

StringLiteralAtoms == {"'x'", "'foo'", "'2012-01-02 12:55:22'"}

string_of(atom) ==
    CASE atom = "'x'" -> "x"
      [] atom = "'foo'" -> "foo"
      [] atom = "'2012-01-02 12:55:22'" -> "2012-01-02 12:55:22"
      [] OTHER -> ""

RECURSIVE tokens(_)
tokens(s) ==
    IF s = <<>> THEN <<>>
    ELSE IF Head(s) = " " THEN tokens(Tail(s))
    ELSE <<Head(s)>> \o tokens(Tail(s))

\* split at the separators that are outside every parenthesis
RECURSIVE split_top(_, _, _, _, _)
split_top(rest, seps, depth, cur, out) ==
    IF rest = <<>> THEN (IF cur = <<>> THEN out ELSE Append(out, cur))
    ELSE LET c == Head(rest)
         IN IF c \in seps /\ depth = 0
            THEN split_top(Tail(rest), seps, depth, <<>>, Append(out, cur))
            ELSE split_top(Tail(rest), seps,
                           IF c = "(" THEN depth + 1
                           ELSE IF c = ")" THEN depth - 1 ELSE depth,
                           Append(cur, c), out)

AstError == [err |-> TRUE, stmts |-> <<>>]

OtherStatementAtoms == {"SET x=1", "DROP TABLE", "UNLOCK TABLES"}

OtherStmt == [stmt |-> "Other", name |-> "", columns |-> <<>>, source |-> "", rows |-> <<>>]

StmtError == [err |-> TRUE, stmt |-> OtherStmt]

StmtOk(st) == [err |-> FALSE, stmt |-> st]

balanced(toks) ==
    LET depth[i \in 0..Len(toks)] ==
            IF i = 0 THEN 0
            ELSE IF toks[i] = "(" THEN depth[i - 1] + 1
            ELSE IF toks[i] = ")" THEN depth[i - 1] - 1
            ELSE depth[i - 1]
    IN /\ \A i \in 0..Len(toks) : depth[i] >= 0
       /\ depth[Len(toks)] = 0

\* ident ("," ident)*
is_ident_list(toks) ==
    /\ Len(toks) % 2 = 1
    /\ \A i \in 1..Len(toks) :
          IF i % 2 = 1 THEN toks[i] \in IdentAtoms ELSE toks[i] = ","

\* KEY [name] (col, ...): an index column followed by a prefix length,
\* col(144), is not in the grammar
is_key_clause(item) ==
    /\ Len(item) >= 4
    /\ Head(item) \in KeyAtoms
    /\ Last(item) = ")"
    /\ LET open == IF item[2] = "(" THEN 2 ELSE 3
       IN /\ item[open] = "("
          /\ open = 3 => item[2] \in IdentAtoms
          /\ is_ident_list(SubSeq(item, open + 1, Len(item) - 1))

is_column_def(item) ==
    /\ Len(item) >= 2
    /\ item[1] \in IdentAtoms
    /\ data_type_of(item[2]).variant # ""
    /\ \A i \in 3..Len(item) : column_option_of(item[i]) # ""

column_def_of(item) ==
    [name |-> ident_value(item[1]),
     data_type |-> data_type_of(item[2]),
     options |-> [i \in 1..(Len(item) - 2) |-> column_option_of(item[i + 2])]]

\* one value expression of a VALUES row
is_expr(toks) ==
    \/ /\ Len(toks) = 1
       /\ toks[1] \in NumberAtoms \cup StringLiteralAtoms \cup IdentAtoms
                      \cup {"NULL", "TRUE", "FALSE"}
    \/ /\ Len(toks) = 2
       /\ toks[1] = "-"
       /\ toks[2] \in NumberAtoms \cup StringLiteralAtoms \cup IdentAtoms

value_of(atom) ==
    IF atom \in NumberAtoms THEN [kind |-> "Number", text |-> atom]
    ELSE IF atom \in StringLiteralAtoms THEN [kind |-> "SingleQuotedString", text |-> atom]
    ELSE IF atom \in {"TRUE", "FALSE"} THEN [kind |-> "Boolean", text |-> atom]
    ELSE IF atom = "NULL" THEN [kind |-> "Null", text |-> atom]
    ELSE [kind |-> "", text |-> atom]

expr_of(toks) ==
    IF Len(toks) = 2
    THEN [expr |-> "UnaryMinus",
          inner |-> IF toks[2] \in IdentAtoms THEN "Identifier" ELSE "Value",
          value |-> value_of(toks[2])]
    ELSE IF toks[1] \in IdentAtoms
    THEN [expr |-> "Identifier", inner |-> "", value |-> value_of(toks[1])]
    ELSE [expr |-> "Value", inner |-> "", value |-> value_of(toks[1])]

\* ( expr, ... ); the MySQL dialect also takes the empty row ()
is_values_row(group) ==
    /\ Len(group) >= 2
    /\ Head(group) = "("
    /\ Last(group) = ")"
    /\ LET inner == SubSeq(group, 2, Len(group) - 1)
           exprs == split_top(inner, {","}, 0, <<>>, <<>>)
       IN inner # <<>> =>
             /\ Last(inner) # ","
             /\ \A i \in 1..Len(exprs) : is_expr(exprs[i])

values_row_of(group) ==
    LET exprs == split_top(SubSeq(group, 2, Len(group) - 1), {","}, 0, <<>>, <<>>)
    IN [i \in 1..Len(exprs) |-> expr_of(exprs[i])]

\* Parser::parse_create_table and parse_columns: the list between the
\* parentheses holds column definitions and key clauses, either may be absent
parse_create_table(toks) ==
    LET close == IF Last(toks) = ")" THEN Len(toks) ELSE Len(toks) - 1
        body  == SubSeq(toks, 4, close - 1)
        items == split_top(body, {","}, 0, <<>>, <<>>)
        cols  == SelectSeq(items, is_column_def)
    IN IF /\ Len(toks) >= 4
          /\ toks[2] \in IdentAtoms
          /\ toks[3] = "("
          /\ toks[close] = ")"
          /\ close = Len(toks) \/ Last(toks) = "ENGINE=InnoDB"
          /\ body # <<>> => Last(body) # ","
          /\ balanced(body)
          /\ \A i \in 1..Len(items) : is_column_def(items[i]) \/ is_key_clause(items[i])
       THEN StmtOk([stmt |-> "CreateTable", name |-> ident_value(toks[2]),
                    columns |-> [i \in 1..Len(cols) |-> column_def_of(cols[i])],
                    source |-> "", rows |-> <<>>])
       ELSE StmtError

parse_insert(toks) ==
    LET rest   == SubSeq(toks, 4, Len(toks))
        groups == split_top(rest, {","}, 0, <<>>, <<>>)
    IN IF Len(toks) >= 3 /\ toks[2] \in IdentAtoms /\ toks[3] = "SELECT 1" /\ Len(toks) = 3
       THEN StmtOk([stmt |-> "Insert", name |-> ident_value(toks[2]), columns |-> <<>>,
                    source |-> "Select", rows |-> <<>>])
       ELSE IF /\ Len(toks) >= 4
               /\ toks[2] \in IdentAtoms
               /\ toks[3] = "VALUES"
               /\ balanced(rest)
               /\ Last(rest) # ","
               /\ \A i \in 1..Len(groups) : is_values_row(groups[i])
       THEN StmtOk([stmt |-> "Insert", name |-> ident_value(toks[2]), columns |-> <<>>,
                    source |-> "Values",
                    rows |-> [i \in 1..Len(groups) |-> values_row_of(groups[i])]])
       ELSE StmtError

parse_statement(toks) ==
    IF Head(toks) = "CREATE TABLE" THEN parse_create_table(toks)
    ELSE IF Head(toks) = "INSERT INTO" THEN parse_insert(toks)
    ELSE IF Len(toks) = 1 /\ Head(toks) \in OtherStatementAtoms THEN StmtOk(OtherStmt)
    ELSE StmtError

\* Parser::parse_sql: the statements of the text, separated by ';'
parse_sql(text) ==
    LET chunks == split_top(tokens(text), {";"}, 0, <<>>, <<>>)
        stmts  == SelectSeq(chunks, LAMBDA c : c # <<>>)
        parsed == [i \in 1..Len(stmts) |-> parse_statement(stmts[i])]
    IN IF \E i \in 1..Len(parsed) : parsed[i].err
       THEN AstError
       ELSE [err |-> FALSE, stmts |-> [i \in 1..Len(parsed) |-> parsed[i].stmt]]

(***************************************************************************)
(* line_parser.rs: Line, Schema, ColumnDef, ColumnType, ColumnValue.       *)
(* A ColumnValue is [tag, i, s, b]; Float(f) keeps f in tenths in i.       *)
(***************************************************************************)
ColumnTypes == {"String", "Integer", "Float", "Timestamp", "Boolean"}

CVString(s)  == [tag |-> "String", i |-> 0, s |-> s, b |-> FALSE]
CVInteger(i) == [tag |-> "Integer", i |-> i, s |-> "", b |-> FALSE]
CVFloat(t)   == [tag |-> "Float", i |-> t, s |-> "", b |-> FALSE]
CVBoolean(b) == [tag |-> "Boolean", i |-> 0, s |-> "", b |-> b]
CVNull       == [tag |-> "Null", i |-> 0, s |-> "", b |-> FALSE]
\* the value of an expression parse_line rejects
CVBail       == [tag |-> "", i |-> 0, s |-> "", b |-> FALSE]

LineCreateTable(name, schema) ==
    [kind |-> "CreateTable", table_name |-> name, schema |-> schema, rows |-> <<>>]
LineInsertInto(name, rows) ==
    [kind |-> "InsertInto", table_name |-> name, schema |-> <<>>, rows |-> rows]
LineNOP == [kind |-> "NOP", table_name |-> "", schema |-> <<>>, rows |-> <<>>]

ParseErr == [ok |-> FALSE, line |-> LineNOP]
ParseOk(l) == [ok |-> TRUE, line |-> l]

\* the match on column.data_type (line_parser.rs:122-174); "" is the bail!
column_type_of(data_type) ==
    LET v == data_type.variant
    IN IF v \in {"Varchar", "Text", "String", "Enum"} THEN "String"
       ELSE IF v \in {"Numeric", "Decimal", "BigNumeric", "BigDecimal", "Dec",
                      "TinyInt", "UnsignedTinyInt", "Int2", "UnsignedInt2",
                      "SmallInt", "UnsignedSmallInt", "MediumInt",
                      "UnsignedMediumInt", "Int", "Int4", "Int64", "Integer",
                      "UnsignedInt", "UnsignedInt4", "UnsignedInteger", "BigInt",
                      "UnsignedBigInt", "Int8", "UnsignedInt8"} THEN "Integer"
       ELSE IF v \in {"Float", "Float4", "Float64", "Real", "Float8", "Double",
                      "DoublePrecision"} THEN "Float"
       ELSE IF v \in {"Bool", "Boolean"} THEN "Boolean"
       ELSE IF v \in {"Date", "Time", "Datetime", "Timestamp"} THEN "Timestamp"
       ELSE IF v = "Custom" /\ data_type.custom \in {"longtext", "mediumtext"}
       THEN "String"
       ELSE ""

\* faulty variant: the last deciding option decides
nullable_of_LastDecides(options) ==
    LET decides(o) == o \in {"Null", "NotNull", "UniquePrimary"}
        deciding   == SelectSeq(options, decides)
    IN IF deciding = <<>> THEN TRUE ELSE Last(deciding) = "Null"

\* the first option that is Null, NotNull or a primary key decides; else true
nullable_of(options) ==
    LET decides(o) == o \in {"Null", "NotNull", "UniquePrimary"}
        deciding   == SelectSeq(options, decides)
    IN IF deciding = <<>> THEN TRUE ELSE Head(deciding) = "Null"

column_value_of(e) ==
    LET num == number_of(e.value.text)
    IN IF e.expr = "UnaryMinus"
       THEN IF e.inner = "Value" /\ e.value.kind = "Number"
            THEN IF ~num.ok THEN CVBail
                 ELSE IF num.dot THEN CVFloat(0 - num.val)
                 ELSE CVInteger(0 - num.val)
            ELSE CVBail
       ELSE IF e.expr = "Value"
       THEN CASE e.value.kind = "Number" ->
                    IF ~num.ok THEN CVBail
                    ELSE IF num.dot THEN CVFloat(num.val)
                    ELSE CVInteger(num.val)
              [] e.value.kind = "SingleQuotedString" -> CVString(string_of(e.value.text))
              [] e.value.kind = "Boolean" -> CVBoolean(e.value.text = "TRUE")
              [] e.value.kind = "Null" -> CVNull
              [] OTHER -> CVBail
       ELSE CVBail

\* faulty variant: the values of a row in reverse order
row_values_of_Reversed(row) ==
    [c \in 1..Len(row) |-> column_value_of(row[Len(row) + 1 - c])]

\* the loop over the expressions of a row (line_parser.rs:228-266)
row_values_of(row) == [c \in 1..Len(row) |-> column_value_of(row[c])]

parse_line(text) ==
    LET ast == parse_sql(text)
    IN IF ast.err THEN ParseErr
       ELSE IF Len(ast.stmts) = 0 THEN ParseOk(LineNOP)
       ELSE IF Len(ast.stmts) > 1 THEN ParseErr
       ELSE LET stmt == ast.stmts[1]
            IN IF stmt.stmt = "CreateTable"
               THEN IF \E i \in 1..Len(stmt.columns) :
                          column_type_of(stmt.columns[i].data_type) = ""
                    THEN ParseErr
                    ELSE ParseOk(LineCreateTable(stmt.name,
                           [i \in 1..Len(stmt.columns) |->
                              [column_name |-> stmt.columns[i].name,
                               nullable |-> nullable_of(stmt.columns[i].options),
                               column_type |-> column_type_of(stmt.columns[i].data_type)]]))
               ELSE IF stmt.stmt = "Insert"
               THEN IF stmt.source # "Values" THEN ParseErr
                    ELSE LET rows == [r \in 1..Len(stmt.rows) |->
                                        row_values_of(stmt.rows[r])]
                         IN IF \E r \in 1..Len(rows) : \E c \in 1..Len(rows[r]) :
                                  rows[r][c] = CVBail
                            THEN ParseErr
                            ELSE ParseOk(LineInsertInto(stmt.name, rows))
               ELSE ParseOk(LineNOP)

(***************************************************************************)
(* Schema::to_arrow_schema (line_parser.rs:29-51).                         *)
(***************************************************************************)
to_lowercase(name) ==
    CASE name = "A" -> "a"
      [] name = "B" -> "b"
      [] name = "Id" -> "id"
      [] OTHER -> name

arrow_data_type(column_type) ==
    CASE column_type = "String" -> "Utf8"
      [] column_type = "Integer" -> "Int64"
      [] column_type = "Float" -> "Float64"
      [] column_type = "Timestamp" -> "Timestamp(Second, None)"
      [] OTHER -> "todo!"

\* ok = FALSE is the panic of todo!() on a Boolean column
\* faulty variant: a Boolean column gets a field like any other
to_arrow_schema_BooleanField(schema) ==
    [ok |-> TRUE,
     fields |-> [i \in 1..Len(schema) |->
                   [name |-> to_lowercase(schema[i].column_name),
                    data_type |-> arrow_data_type(schema[i].column_type),
                    nullable |-> schema[i].nullable]]]

to_arrow_schema(schema) ==
    [ok |-> \A i \in 1..Len(schema) : schema[i].column_type # "Boolean",
     fields |-> [i \in 1..Len(schema) |->
                   [name |-> to_lowercase(schema[i].column_name),
                    data_type |-> arrow_data_type(schema[i].column_type),
                    nullable |-> schema[i].nullable]]]

(***************************************************************************)
(* CurrentParquetWriter::write_rows (parquet_writer.rs:120-218): the       *)
(* builders and the record batch.  An encoded value is a ColumnValue whose *)
(* tag is that of the column's builder.                                    *)
(***************************************************************************)
\* the brute force parse of YYYY-mm-DD hh:mm:ss (parquet_writer.rs:173-193)
is_leap_year(y) == (y % 4 = 0 /\ y % 100 # 0) \/ y % 400 = 0

days_in_month(y, m) ==
    IF m = 2 THEN (IF is_leap_year(y) THEN 29 ELSE 28)
    ELSE IF m \in {4, 6, 9, 11} THEN 30 ELSE 31

RECURSIVE days_before_month(_, _)
days_before_month(y, m) ==
    IF m <= 1 THEN 0 ELSE days_before_month(y, m - 1) + days_in_month(y, m - 1)

\* the leap years before year y
leap_years_before(y) == ((y - 1) \div 4) - ((y - 1) \div 100) + ((y - 1) \div 400)

\* the days from 1970-01-01 to the date
days_from_epoch(y, m, d) ==
    365 * (y - 1970) + (leap_years_before(y) - leap_years_before(1970))
        + days_before_month(y, m) + (d - 1)

\* value[a..b], None when the string is shorter
slice(cs, a, b) == IF Len(cs) >= b THEN [ok |-> TRUE, cs |-> SubSeq(cs, a + 1, b)]
                   ELSE [ok |-> FALSE, cs |-> <<>>]

\* the fields value[0..4], value[5..7], value[8..10], value[11..13],
\* value[14..16], value[17..19]
FieldRanges == << <<0, 4>>, <<5, 7>>, <<8, 10>>, <<11, 13>>, <<14, 16>>, <<17, 19>> >>

\* the six fields parsed: the year as i32, the others as u32
date_fields(cs) ==
    [k \in 1..6 |->
        IF slice(cs, FieldRanges[k][1], FieldRanges[k][2]).ok
        THEN parse_field(slice(cs, FieldRanges[k][1], FieldRanges[k][2]).cs, k = 1)
        ELSE [ok |-> FALSE, val |-> 0]]

\* faulty variant: the date-time is taken in a local time zone, one hour
\* east of UTC
datetime_of_LocalZone(f) ==
    LET year  == f[1].val
        month == f[2].val
        day   == f[3].val
        hour  == f[4].val
        min   == f[5].val
        sec   == f[6].val
    IN IF /\ \A k \in 1..6 : f[k].ok
          /\ month \in 1..12
          /\ day \in 1..days_in_month(year, month)
          /\ hour < 24 /\ min < 60 /\ sec < 60
       THEN [ok |-> TRUE,
             secs |-> days_from_epoch(year, month, day) * 86400
                        + hour * 3600 + min * 60 + sec - 3600]
       ELSE [ok |-> FALSE, secs |-> 0]

\* NaiveDate::from_ymd_opt, NaiveTime::from_hms_opt and the timestamp in UTC
datetime_of(f) ==
    LET year  == f[1].val
        month == f[2].val
        day   == f[3].val
        hour  == f[4].val
        min   == f[5].val
        sec   == f[6].val
    IN IF /\ \A k \in 1..6 : f[k].ok
          /\ month \in 1..12
          /\ day \in 1..days_in_month(year, month)
          /\ hour < 24 /\ min < 60 /\ sec < 60
       THEN [ok |-> TRUE,
             secs |-> days_from_epoch(year, month, day) * 86400
                        + hour * 3600 + min * 60 + sec]
       ELSE [ok |-> FALSE, secs |-> 0]

timestamp_of(s) ==
    CHOOSE t \in {datetime_of(f) : f \in {date_fields(chars(s))}} : TRUE

CVTimestamp(secs) == [tag |-> "Timestamp", i |-> secs, s |-> "", b |-> FALSE]

\* faulty variant: a value is taken only by a column of its own type
append_value_SameTag(column_type, v) ==
    IF v.tag = "Null" \/ (v.tag = column_type /\ column_type # "Timestamp")
    THEN [ok |-> TRUE, cell |-> v]
    ELSE IF column_type = "Timestamp" /\ v.tag = "String"
    THEN [ok |-> timestamp_of(v.s).ok, cell |-> CVTimestamp(timestamp_of(v.s).secs)]
    ELSE [ok |-> FALSE, cell |-> CVNull]

\* the match on column_type and column_value; ok = FALSE is a panic!
append_value(column_type, v) ==
    CASE column_type = "String" ->
            IF v.tag \in {"String", "Null"} THEN [ok |-> TRUE, cell |-> v]
            ELSE [ok |-> FALSE, cell |-> CVNull]
      [] column_type = "Integer" ->
            IF v.tag \in {"Integer", "Null"} THEN [ok |-> TRUE, cell |-> v]
            ELSE [ok |-> FALSE, cell |-> CVNull]
      [] column_type = "Float" ->
            IF v.tag \in {"Float", "Null"} THEN [ok |-> TRUE, cell |-> v]
            ELSE IF v.tag = "Integer" THEN [ok |-> TRUE, cell |-> CVFloat(v.i * 10)]
            ELSE [ok |-> FALSE, cell |-> CVNull]
      [] column_type = "Timestamp" ->
            IF v.tag = "Null" THEN [ok |-> TRUE, cell |-> v]
            ELSE IF v.tag = "String"
            THEN [ok |-> timestamp_of(v.s).ok, cell |-> CVTimestamp(timestamp_of(v.s).secs)]
            ELSE [ok |-> FALSE, cell |-> CVNull]
      [] column_type = "Boolean" ->
            IF v.tag \in {"Boolean", "Null"} THEN [ok |-> TRUE, cell |-> v]
            ELSE [ok |-> FALSE, cell |-> CVNull]
      [] OTHER -> [ok |-> FALSE, cell |-> CVNull]

\* the array of column j: one value of every row that has a j-th value
column_array(schema, rows, j) ==
    LET has_j(row) == Len(row) >= j
        with_j == SelectSeq(rows, has_j)
    IN [r \in 1..Len(with_j) |-> append_value(schema[j].column_type, with_j[r][j]).cell]

\* ok = FALSE: self.schema.0[i] out of bounds, a panic! of the match, or
\* RecordBatch::try_new refusing arrays of unequal length or a null in a
\* field that is not nullable
record_batch(schema, rows) ==
    LET n == Len(schema)
        arrays == [j \in 1..n |-> column_array(schema, rows, j)]
        ok == /\ \A r \in 1..Len(rows) : Len(rows[r]) <= n
              /\ \A r \in 1..Len(rows) : \A c \in 1..Len(rows[r]) :
                    c <= n => append_value(schema[c].column_type, rows[r][c]).ok
              /\ \A j \in 1..n : Len(arrays[j]) = Len(arrays[1])
              /\ \A j \in 1..n : schema[j].nullable \/
                    \A r \in 1..Len(arrays[j]) : arrays[j][r].tag # "Null"
    IN [ok |-> ok,
        records |-> IF ok /\ n > 0
                    THEN [r \in 1..Len(arrays[1]) |-> [j \in 1..n |-> arrays[j][r]]]
                    ELSE <<>>]

(***************************************************************************)
(* The output directory and the ArrowWriter<File> of a table.              *)
(*                                                                         *)
(* A file is a sequence of cells.  File::create truncates the file and     *)
(* gives a handle at offset 0; each handle writes at its own offset.       *)
(* ArrowWriter::try_new writes the magic cell, write() keeps the batch in  *)
(* memory (the row group in progress), close() writes the buffered records *)
(* and then the footer, which names the records of the file.               *)
(***************************************************************************)
Cell(c, id, row, n) == [c |-> c, id |-> id, row |-> row, n |-> n]
MagicCell(id)     == Cell("magic", id, <<>>, 0)
RowCell(id, row)  == Cell("row", id, row, 0)
FooterCell(id, n) == Cell("footer", id, <<>>, n)
HoleCell          == Cell("hole", 0, <<>>, 0)

\* the cells written at offset pos (the number of cells before it)
write_at(cells, pos, new) ==
    LET len == IF pos + Len(new) > Len(cells) THEN pos + Len(new) ELSE Len(cells)
    IN [k \in 1..len |->
          IF k > pos /\ k <= pos + Len(new) THEN new[k - pos]
          ELSE IF k <= Len(cells) THEN cells[k]
          ELSE HoleCell]

\* what a reader of the file finds: the footer is the last cell
file_valid(cells) ==
    /\ Len(cells) >= 2
    /\ cells[1].c = "magic"
    /\ Last(cells).c = "footer"
    /\ Len(cells) = Last(cells).n + 2
    /\ \A k \in 2..(Len(cells) - 1) : cells[k].c = "row" /\ cells[k].id = Last(cells).id

file_records(cells) == [k \in 1..(Len(cells) - 2) |-> cells[k + 1].row]

\* Some(CurrentParquetWriter) (parquet_writer.rs:27-33); pos is the offset
\* of its File, buffered the records of the row group in progress
SomeWriter(id, table_name, schema, arrow_schema) ==
    [some |-> TRUE, id |-> id, row_count |-> 0, table_name |-> table_name,
     schema |-> schema, arrow_schema |-> arrow_schema, buffered |-> <<>>, pos |-> 1]

\* faulty variant: the table name is left out of the file name
file_name_Fixed(table_name) == <<"table", ".parquet">>

\* the file name of a table (parquet_writer.rs:77-78)
file_name(table_name) == <<table_name, ".parquet">>

\* arrow_writer.close() (parquet_writer.rs:220-222)
closed_file(cells, w) ==
    write_at(cells, w.pos,
             [k \in 1..Len(w.buffered) |-> RowCell(w.id, w.buffered[k])]
                 \o <<FooterCell(w.id, Len(w.buffered))>>)

\* the operations on encoders, in the order the writer thread performs them
EncOp(op, id, table_name, records) ==
    [op |-> op, id |-> id, table |-> table_name, records |-> records]

(***************************************************************************)
(* ParquetWriter (parquet_writer.rs:21-109) as a function of the state of  *)
(* the writer thread: w is [pc, current_writer, previous_writer, files,    *)
(* enc_log, stderr, io_faults].  Each operator gives the set of states the *)
(* code can end in; the choice is whether an output operation fails.       *)
(***************************************************************************)
FaultChoices(faults) == IF faults < MaxIoFaults THEN {FALSE, TRUE} ELSE {FALSE}

is_create(o) == o.op = "create"

next_id(enc_log) == Len(SelectSeq(enc_log, is_create)) + 1

\* faulty variant: no Drop implementation, the open writer is never finished
drop_writer_Forgets(w, unwinding) ==
    {[w EXCEPT !.pc = IF unwinding THEN "panicked" ELSE "done"]}

\* impl Drop for ParquetWriter (parquet_writer.rs:35-45).  A panic of
\* finish() while the thread is already unwinding aborts the process.
drop_writer(w, unwinding) ==
    LET cw == w.current_writer
    IN IF ~cw.some
       THEN {[w EXCEPT !.pc = IF unwinding THEN "panicked" ELSE "done"]}
       ELSE {IF fail
             THEN [w EXCEPT !.pc = IF unwinding THEN "aborted" ELSE "panicked",
                            !.current_writer = None,
                            !.enc_log = Append(@, EncOp("close_failed", cw.id, cw.table_name, <<>>)),
                            !.io_faults = @ + 1]
             ELSE [w EXCEPT !.pc = IF unwinding THEN "panicked" ELSE "done",
                            !.current_writer = None,
                            !.files = [@ EXCEPT ![file_name(cw.table_name)] = closed_file(@, cw)],
                            !.enc_log = Append(@, EncOp("close", cw.id, cw.table_name, cw.buffered))]
             : fail \in FaultChoices(w.io_faults)}

\* a panic inside new_line: the thread unwinds and drops the ParquetWriter
panic_in_new_line(w) == drop_writer([w EXCEPT !.previous_writer = None], TRUE)

\* Line::CreateTable, up to self.current_writer.replace (parquet_writer.rs:69-88)
new_line_create_table(w, table_name, schema) ==
    LET arrow_schema == to_arrow_schema(schema)
        id     == next_id(w.enc_log)
        name   == file_name(table_name)
        failed == [w EXCEPT !.io_faults = @ + 1]
        created == [w EXCEPT
                      !.files = [f \in DOMAIN @ \cup {name} |-> IF f = name THEN <<>> ELSE @[f]],
                      !.enc_log = Append(@, EncOp("create", id, table_name, <<>>))]
        opened == [created EXCEPT
                      !.files = [@ EXCEPT ![name] = write_at(@, 0, <<MagicCell(id)>>)],
                      !.enc_log = Append(@, EncOp("open", id, table_name, <<>>)),
                      !.current_writer = SomeWriter(id, table_name, schema, arrow_schema.fields),
                      !.previous_writer = w.current_writer,
                      !.pc = IF w.current_writer.some THEN "finish_prev" ELSE "recv"]
    IN IF ~arrow_schema.ok THEN panic_in_new_line(w)
       ELSE UNION {IF fail_create THEN panic_in_new_line(failed)
                   ELSE UNION {IF fail_open
                               THEN panic_in_new_line([created EXCEPT !.io_faults = @ + 1])
                               ELSE {opened}
                               : fail_open \in FaultChoices(w.io_faults)}
                   : fail_create \in FaultChoices(w.io_faults)}

\* preview_writer.finish() (parquet_writer.rs:89-91)
finish_previous(w) ==
    LET pw == w.previous_writer
    IN UNION {IF fail
              THEN panic_in_new_line(
                     [w EXCEPT !.enc_log = Append(@, EncOp("close_failed", pw.id, pw.table_name, <<>>)),
                               !.io_faults = @ + 1])
              ELSE {[w EXCEPT !.pc = "recv",
                              !.previous_writer = None,
                              !.files = [@ EXCEPT ![file_name(pw.table_name)] = closed_file(@, pw)],
                              !.enc_log = Append(@, EncOp("close", pw.id, pw.table_name, pw.buffered))]}
              : fail \in FaultChoices(w.io_faults)}

\* faulty variant: only the presence of a current writer is tested
is_other_table_AnyOpen(current_writer, table_name) == ~current_writer.some

\* Some(&table_name) != self.current_writer.as_ref().map(|w| &w.table_name)
is_other_table(current_writer, table_name) ==
    ~current_writer.some \/ current_writer.table_name # table_name

\* Line::InsertInto (parquet_writer.rs:93-105)
new_line_insert_into(w, table_name, rows) ==
    LET cw    == w.current_writer
        batch == record_batch(cw.schema, rows)
    IN IF is_other_table(cw, table_name)
       THEN {[w EXCEPT !.stderr = Append(@, "Received a line from an unknown table")]}
       ELSE IF ~batch.ok THEN panic_in_new_line(w)
       ELSE UNION {IF fail
                   THEN panic_in_new_line([w EXCEPT !.io_faults = @ + 1])
                   ELSE {[w EXCEPT
                            !.current_writer.buffered = @ \o batch.records,
                            !.current_writer.row_count = @ + Len(rows),
                            !.enc_log = Append(@, EncOp("write", cw.id, cw.table_name, batch.records))]}
                   : fail \in FaultChoices(w.io_faults)}

\* ParquetWriter::new_line (parquet_writer.rs:67-108)
new_line(w, line) ==
    CASE line.kind = "CreateTable" -> new_line_create_table(w, line.table_name, line.schema)
      [] line.kind = "InsertInto" -> new_line_insert_into(w, line.table_name, line.rows)
      [] OTHER -> {w}

(***************************************************************************)
(* The input: blocks of lines as a dump holds them.                        *)
(***************************************************************************)
\* a table definition with an index on a column prefix
BlkCreateA ==
    << <<"CREATE TABLE", " ", "A", " ", "(", "c", " ", "int", ",">>,
       <<" ", "KEY ", "k", " ", "(", "c", "(", "10", ")", ")">>,
       <<")", " ", "ENGINE=InnoDB", ";">> >>

\* DROP TABLE IF EXISTS, a /*! ... */; comment and a table definition
BlkCreateB ==
    << <<"DROP TABLE", ";">>,
       <<"/*", "SET x=1", "*/;">>,
       <<"CREATE TABLE", " ", "B", " ", "(", "c", " ", "text", ")", ";">> >>

\* a table definition with a column of a type the writer does not support
BlkCreateBool == << <<"CREATE TABLE", " ", "B", " ", "(", "c", " ", "bool", ")", ";">> >>

BlkInsertA == << <<"INSERT INTO", " ", "A", " ", "VALUES", " ", "(", "1", ")", ";">> >>

\* an insert of two rows over two lines, a comment between them
BlkInsertB ==
    << <<"INSERT INTO", " ", "B", " ", "VALUES">>,
       <<" ", "--", "c", " ">>,
       <<"(", "'x'", ")", ",", "(", "NULL", ")", ";">> >>

\* a string for the integer column of A
BlkInsertABad == << <<"INSERT INTO", " ", "A", " ", "VALUES", " ", "(", "'x'", ")", ";">> >>

\* text without a terminator: it joins the next statement, or the input ends
BlkJunk == << <<"junk">> >>

\* lines the reader discards: a line comment, a block comment, a blank line
BlkComments == << <<" ", "--", "c">>, <<"/*", "SET x=1", "*/;">>, <<" ">> >>

Blocks == {BlkCreateA, BlkCreateB, BlkCreateBool, BlkInsertA, BlkInsertB,
           BlkInsertABad, BlkJunk, BlkComments}

Inputs == {Flatten(bs) : bs \in SeqsUpTo(Blocks, MaxBlocks)}

(***************************************************************************)
(* State.                                                                  *)
(***************************************************************************)
VARIABLES
    input,              \* the lines of the reader
    read_pos,           \* the next line read_line returns
    current_statement,  \* main.rs:110
    main_pc,            \* "read", "join_parser", "join_writer", "returning", "exited"
    exit_code,          \* -1 while main runs
    read_error,         \* read_line returned an error
    stmt_chan,          \* bounded::<String>(1000): the statements in flight
    stmt_tx,            \* line_parser_sender is alive
    stmt_rx,            \* line_parser_receiver is alive
    parser_pc,          \* "recv", "send", "done", "panicked"
    parser_line,        \* the Line the parser thread is sending
    event_chan,         \* bounded(100): the Lines in flight
    event_tx,           \* writer_sender is alive
    event_rx,           \* receiver is alive
    writer_pc,          \* "recv", "finish_prev", "done", "panicked", "aborted"
    current_writer,     \* ParquetWriter.current_writer
    previous_writer,    \* previous_writer of new_line
    files,              \* the output directory: file name -> cells
    enc_log,            \* the encoder operations performed so far
    stderr,             \* the diagnostics of the writer
    io_faults,          \* the output operations that failed
    sent,               \* history: the statements the reader sent
    handled,            \* history: the Lines new_line was called with
    call,               \* a function called on its own: its name and arguments
    result              \* what the call returned

main_vars   == <<input, read_pos, current_statement, main_pc, exit_code, read_error>>
chan_vars   == <<stmt_chan, stmt_tx, stmt_rx, event_chan, event_tx, event_rx>>
parser_vars == <<parser_pc, parser_line>>
writer_vars == <<writer_pc, current_writer, previous_writer, files, enc_log, stderr, io_faults>>
call_vars   == <<call, result>>
vars == <<main_vars, chan_vars, parser_vars, writer_vars, sent, handled, call_vars>>

\* no function is called on its own while the pipeline runs
NoCall == [fn |-> ""]
NoResult == [returned |-> FALSE]

\* main before its first read_line, the two threads started
Started ==
    /\ read_pos = 1
    /\ current_statement = <<>>
    /\ main_pc = "read"
    /\ exit_code = -1
    /\ read_error = FALSE
    /\ stmt_chan = <<>>
    /\ stmt_tx = TRUE
    /\ stmt_rx = TRUE
    /\ parser_pc = "recv"
    /\ parser_line = LineNOP
    /\ event_chan = <<>>
    /\ event_tx = TRUE
    /\ event_rx = TRUE
    /\ writer_pc = "recv"
    /\ current_writer = None
    /\ previous_writer = None
    /\ files = <<>>
    /\ enc_log = <<>>
    /\ stderr = <<>>
    /\ io_faults = 0
    /\ sent = <<>>
    /\ handled = <<>>

Init ==
    /\ input \in Inputs
    /\ Started
    /\ call = NoCall
    /\ result = NoResult

\* the process is alive: threads run until main has returned and exited
Running == main_pc # "exited"

(***************************************************************************)
(* main: the read loop and the joins (main.rs:110-151).                    *)
(***************************************************************************)
\* faulty variant: the filter is applied whatever the accumulator holds
appended_AlwaysFiltered(statement, line) == statement \o cleanup_key(line)

\* main.rs:129-133: the accumulator after the line is appended
appended(statement, line) ==
    IF starts_with(statement, "CREATE TABLE") THEN statement \o cleanup_key(line)
    ELSE statement \o line

\* the loop of main.rs:110-141 run to the end of lines: the statements it sends
RECURSIVE read_statements(_, _)
read_statements(lines, statement) ==
    IF lines = <<>> THEN <<>>
    ELSE LET line == trim(Head(lines))
             next == appended(statement, line)
         IN IF is_ignored(line) THEN read_statements(Tail(lines), statement)
            ELSE IF ~ends_with_semicolon(next) THEN read_statements(Tail(lines), next)
            ELSE <<trim(next)>> \o read_statements(Tail(lines), <<>>)

\* every statement the reader can send, and parse_line of each, tabulated
Statements ==
    UNION {{read_statements(in, <<>>)[i] : i \in 1..Len(read_statements(in, <<>>))} :
              in \in Inputs}

parsed_statements == [text \in Statements |-> parse_line(text)]

\* main returns: its locals are dropped, then the process exits with code
MainReturns(code) ==
    /\ main_pc' = "returning"
    /\ exit_code' = code
    /\ stmt_tx' = FALSE

\* faulty variant: the accumulator is not cleared after the send
MainReadLine_KeepsAccumulator ==
    /\ main_pc = "read"
    /\ read_pos <= Len(input)
    /\ LET line == trim(input[read_pos])
           statement == appended(current_statement, line)
       IN IF is_ignored(line)
          THEN /\ read_pos' = read_pos + 1
               /\ UNCHANGED <<current_statement, main_pc, exit_code, stmt_chan, stmt_tx, sent>>
          ELSE IF ~ends_with_semicolon(statement)
          THEN /\ read_pos' = read_pos + 1
               /\ current_statement' = statement
               /\ UNCHANGED <<main_pc, exit_code, stmt_chan, stmt_tx, sent>>
          ELSE IF ~stmt_rx
          THEN /\ MainReturns(1)
               /\ read_pos' = read_pos + 1
               /\ current_statement' = statement
               /\ UNCHANGED <<stmt_chan, sent>>
          ELSE /\ Len(stmt_chan) < StatementQueueCap
               /\ stmt_chan' = Append(stmt_chan, trim(statement))
               /\ sent' = Append(sent, trim(statement))
               /\ read_pos' = read_pos + 1
               /\ current_statement' = statement
               /\ UNCHANGED <<main_pc, exit_code, stmt_tx>>
    /\ UNCHANGED <<input, read_error, stmt_rx, event_chan, event_tx, event_rx,
                   parser_vars, writer_vars, handled>>
    /\ UNCHANGED call_vars

\* one turn of the loop: read_line, the comment test, the append and the send
MainReadLine ==
    /\ main_pc = "read"
    /\ read_pos <= Len(input)
    /\ LET line == trim(input[read_pos])
           statement == appended(current_statement, line)
       IN IF is_ignored(line)
          THEN /\ read_pos' = read_pos + 1
               /\ UNCHANGED <<current_statement, main_pc, exit_code, stmt_chan, stmt_tx, sent>>
          ELSE IF ~ends_with_semicolon(statement)
          THEN /\ read_pos' = read_pos + 1
               /\ current_statement' = statement
               /\ UNCHANGED <<main_pc, exit_code, stmt_chan, stmt_tx, sent>>
          ELSE IF ~stmt_rx
          THEN \* send fails: "Cannot send SQL statement to parser!"
               /\ MainReturns(1)
               /\ read_pos' = read_pos + 1
               /\ current_statement' = statement
               /\ UNCHANGED <<stmt_chan, sent>>
          ELSE \* send blocks while the channel is full
               /\ Len(stmt_chan) < StatementQueueCap
               /\ stmt_chan' = Append(stmt_chan, trim(statement))
               /\ sent' = Append(sent, trim(statement))
               /\ read_pos' = read_pos + 1
               /\ current_statement' = <<>>
               /\ UNCHANGED <<main_pc, exit_code, stmt_tx>>
    /\ UNCHANGED <<input, read_error, stmt_rx, event_chan, event_tx, event_rx,
                   parser_vars, writer_vars, handled>>
    /\ UNCHANGED call_vars

\* read_line fails: "Unable to read input"
MainReadError ==
    /\ main_pc = "read"
    /\ read_error' = TRUE
    /\ MainReturns(1)
    /\ UNCHANGED <<input, read_pos, current_statement, stmt_chan, stmt_rx, event_chan,
                   event_tx, event_rx, parser_vars, writer_vars, sent, handled>>
    /\ UNCHANGED call_vars

\* faulty variant: the sender is kept alive across the joins
MainEndOfInput_KeepsSender ==
    /\ main_pc = "read"
    /\ read_pos > Len(input)
    /\ main_pc' = "join_parser"
    /\ UNCHANGED <<input, read_pos, current_statement, exit_code, read_error, chan_vars,
                   parser_vars, writer_vars, sent, handled>>
    /\ UNCHANGED call_vars

\* read_line returns 0: the sender is dropped (main.rs:143)
MainEndOfInput ==
    /\ main_pc = "read"
    /\ read_pos > Len(input)
    /\ main_pc' = "join_parser"
    /\ stmt_tx' = FALSE
    /\ UNCHANGED <<input, read_pos, current_statement, exit_code, read_error, stmt_chan,
                   stmt_rx, event_chan, event_tx, event_rx, parser_vars, writer_vars,
                   sent, handled>>
    /\ UNCHANGED call_vars

\* faulty variant: the result of join() is dropped
after_join_Unchecked(ended_pc, next_pc) ==
    IF next_pc = "returning" THEN [pc |-> "returning", code |-> 0]
    ELSE [pc |-> next_pc, code |-> -1]

\* what main does with the result of join(): expect panics on Err
after_join(ended_pc, next_pc) ==
    IF ended_pc = "panicked"
    THEN [pc |-> "returning", code |-> 101]
    ELSE IF next_pc = "returning" THEN [pc |-> "returning", code |-> 0]
    ELSE [pc |-> next_pc, code |-> -1]

\* line_parser_handle.join().expect("Parser thread crashed!") (main.rs:146)
MainJoinParser ==
    /\ main_pc = "join_parser"
    /\ parser_pc \in {"done", "panicked"}
    /\ main_pc' = after_join(parser_pc, "join_writer").pc
    /\ exit_code' = after_join(parser_pc, "join_writer").code
    /\ UNCHANGED <<input, read_pos, current_statement, read_error, chan_vars, parser_vars,
                   writer_vars, sent, handled>>
    /\ UNCHANGED call_vars

\* write_thread_join_handle.join().expect(...), then Ok(()) (main.rs:147-151)
MainJoinWriter ==
    /\ main_pc = "join_writer"
    /\ writer_pc \in {"done", "panicked"}
    /\ main_pc' = after_join(writer_pc, "returning").pc
    /\ exit_code' = after_join(writer_pc, "returning").code
    /\ UNCHANGED <<input, read_pos, current_statement, read_error, chan_vars, parser_vars,
                   writer_vars, sent, handled>>
    /\ UNCHANGED call_vars

\* the process exits once main has returned: the other threads end with it
ProcessExit ==
    /\ main_pc = "returning"
    /\ main_pc' = "exited"
    /\ UNCHANGED <<input, read_pos, current_statement, exit_code, read_error, chan_vars,
                   parser_vars, writer_vars, sent, handled>>
    /\ UNCHANGED call_vars

(***************************************************************************)
(* The parser thread (main.rs:92-108).                                     *)
(***************************************************************************)
\* the thread ends (normally or by a panic): its captures are dropped
ParserEnds(pc) ==
    /\ parser_pc' = pc
    /\ stmt_rx' = FALSE
    /\ event_tx' = FALSE

\* line_parser_receiver.recv() and parse_line(&line).unwrap()
ParserRecv ==
    /\ Running
    /\ parser_pc = "recv"
    /\ IF stmt_chan # <<>>
       THEN LET parsed == parsed_statements[Head(stmt_chan)]
            IN /\ stmt_chan' = Tail(stmt_chan)
               /\ IF parsed.ok
                  THEN /\ parser_pc' = "send"
                       /\ parser_line' = parsed.line
                       /\ UNCHANGED <<stmt_rx, event_tx>>
                  ELSE /\ ParserEnds("panicked")
                       /\ UNCHANGED parser_line
       ELSE \* recv fails once the channel is empty and the sender dropped
            /\ ~stmt_tx
            /\ ParserEnds("done")
            /\ UNCHANGED <<stmt_chan, parser_line>>
    /\ UNCHANGED <<main_vars, stmt_tx, event_chan, event_rx, writer_vars, sent, handled>>
    /\ UNCHANGED call_vars

\* faulty variant: try_send, whose Full error is dropped with the Line
ParserSend_TrySend ==
    /\ Running
    /\ parser_pc = "send"
    /\ IF ~event_rx
       THEN /\ ParserEnds("panicked")
            /\ UNCHANGED event_chan
       ELSE /\ event_chan' = IF Len(event_chan) < EventQueueCap
                             THEN Append(event_chan, parser_line) ELSE event_chan
            /\ parser_pc' = "recv"
            /\ UNCHANGED <<stmt_rx, event_tx>>
    /\ UNCHANGED <<main_vars, stmt_chan, stmt_tx, event_rx, parser_line, writer_vars,
                   sent, handled>>
    /\ UNCHANGED call_vars

\* faulty variant: send does not see that the receiver is gone and waits for
\* room in the channel
ParserSend_IgnoresDisconnect ==
    /\ Running
    /\ parser_pc = "send"
    /\ event_rx
    /\ Len(event_chan) < EventQueueCap
    /\ event_chan' = Append(event_chan, parser_line)
    /\ parser_pc' = "recv"
    /\ UNCHANGED <<stmt_rx, event_tx>>
    /\ UNCHANGED <<main_vars, stmt_chan, stmt_tx, event_rx, parser_line, writer_vars,
                   sent, handled>>
    /\ UNCHANGED call_vars

\* faulty variant: the event channel has no capacity limit
ParserSend_Unbounded ==
    /\ Running
    /\ parser_pc = "send"
    /\ IF ~event_rx
       THEN /\ ParserEnds("panicked")
            /\ UNCHANGED event_chan
       ELSE /\ event_chan' = Append(event_chan, parser_line)
            /\ parser_pc' = "recv"
            /\ UNCHANGED <<stmt_rx, event_tx>>
    /\ UNCHANGED <<main_vars, stmt_chan, stmt_tx, event_rx, parser_line, writer_vars,
                   sent, handled>>
    /\ UNCHANGED call_vars

\* writer_sender.send(line).expect("Cannot send parsed rows to parquet writer")
ParserSend ==
    /\ Running
    /\ parser_pc = "send"
    /\ IF ~event_rx
       THEN /\ ParserEnds("panicked")
            /\ UNCHANGED event_chan
       ELSE \* send blocks while the channel is full
            /\ Len(event_chan) < EventQueueCap
            /\ event_chan' = Append(event_chan, parser_line)
            /\ parser_pc' = "recv"
            /\ UNCHANGED <<stmt_rx, event_tx>>
    /\ UNCHANGED <<main_vars, stmt_chan, stmt_tx, event_rx, parser_line, writer_vars,
                   sent, handled>>
    /\ UNCHANGED call_vars

(***************************************************************************)
(* The writer thread (parquet_writer.rs:54-63).                            *)
(***************************************************************************)
WriterState ==
    [pc |-> writer_pc, current_writer |-> current_writer,
     previous_writer |-> previous_writer, files |-> files, enc_log |-> enc_log,
     stderr |-> stderr, io_faults |-> io_faults]

\* the thread is in state w; when it has ended its receiver is dropped, and
\* an abort ends the process
WriterBecomes(w) ==
    /\ writer_pc' = w.pc
    /\ current_writer' = w.current_writer
    /\ previous_writer' = w.previous_writer
    /\ files' = w.files
    /\ enc_log' = w.enc_log
    /\ stderr' = w.stderr
    /\ io_faults' = w.io_faults
    /\ event_rx' = (event_rx /\ w.pc \in {"recv", "finish_prev"})
    /\ IF w.pc = "aborted"
       THEN main_pc' = "exited" /\ exit_code' = 134
       ELSE UNCHANGED <<main_pc, exit_code>>

\* receiver.recv() gave a Line: w.new_line(line)
WriterRecv ==
    /\ Running
    /\ writer_pc = "recv"
    /\ event_chan # <<>>
    /\ \E w \in new_line(WriterState, Head(event_chan)) : WriterBecomes(w)
    /\ event_chan' = Tail(event_chan)
    /\ handled' = Append(handled, Head(event_chan))
    /\ UNCHANGED <<input, read_pos, current_statement, read_error, stmt_chan, stmt_tx,
                   stmt_rx, event_tx, parser_vars, sent>>
    /\ UNCHANGED call_vars

\* the rest of Line::CreateTable: the previous writer is finished
WriterFinishPrevious ==
    /\ Running
    /\ writer_pc = "finish_prev"
    /\ \E w \in finish_previous(WriterState) : WriterBecomes(w)
    /\ UNCHANGED <<input, read_pos, current_statement, read_error, stmt_chan, stmt_tx,
                   stmt_rx, event_chan, event_tx, parser_vars, sent, handled>>
    /\ UNCHANGED call_vars

\* recv fails once the channel is empty and the sender dropped: the loop
\* ends and the ParquetWriter is dropped
WriterEndOfStream ==
    /\ Running
    /\ writer_pc = "recv"
    /\ event_chan = <<>>
    /\ ~event_tx
    /\ \E w \in drop_writer(WriterState, FALSE) : WriterBecomes(w)
    /\ UNCHANGED <<input, read_pos, current_statement, read_error, stmt_chan, stmt_tx,
                   stmt_rx, event_chan, event_tx, parser_vars, sent, handled>>
    /\ UNCHANGED call_vars

Next ==
    \/ MainReadLine
    \/ MainReadError
    \/ MainEndOfInput
    \/ MainJoinParser
    \/ MainJoinWriter
    \/ ProcessExit
    \/ ParserRecv
    \/ ParserSend
    \/ WriterRecv
    \/ WriterFinishPrevious
    \/ WriterEndOfStream

Spec == Init /\ [][Next]_vars

(***************************************************************************)
(* The scheduling of the three threads: a step a thread can take is taken. *)
(* A failing read_line is the environment's choice and is not forced.      *)
(***************************************************************************)
MainStep == MainReadLine \/ MainEndOfInput \/ MainJoinParser \/ MainJoinWriter \/ ProcessExit
ParserStep == ParserRecv \/ ParserSend
WriterStep == WriterRecv \/ WriterFinishPrevious \/ WriterEndOfStream

FairSpec ==
    /\ Spec
    /\ WF_vars(MainStep)
    /\ WF_vars(ParserStep)
    /\ WF_vars(WriterStep)

(***************************************************************************)
(* Properties.                                                             *)
(***************************************************************************)
Exited == main_pc = "exited"

ParserFailed == parser_pc = "panicked"
WriterFailed == writer_pc \in {"panicked", "aborted"}
WriterEnded  == writer_pc \in {"done", "panicked", "aborted"}

\* the Lines between the parser and new_line, oldest first
InFlight ==
    event_chan \o (IF parser_pc = "send" THEN <<parser_line>> ELSE <<>>)

OkResults(lines) == [i \in 1..Len(lines) |-> ParseOk(lines[i])]
ResultsOf(statements) == [i \in 1..Len(statements) |-> parse_line(statements[i])]

OpenEncoders ==
    (IF current_writer.some THEN {current_writer.id} ELSE {})
        \cup (IF previous_writer.some THEN {previous_writer.id} ELSE {})

\* C2: at every point of the writer's execution at most one encoder is open
\* (the previous one is closed before the next file is created and opened)
C2_AtMostOneEncoderOpen == Cardinality(OpenEncoders) <= 1

\* C3: when the process has exited, whatever stage failed, no encoder is
\* left open: each was closed before the exit
C3_EncodersClosedAtExit == Exited => OpenEncoders = {}

\* some stage of the pipeline failed: the reader's read_line, the parser
\* thread or the writer thread
StageFailed == read_error \/ ParserFailed \/ WriterFailed

\* C4: unless a stage fails the process ends with 0, and it has then
\* consumed all its input, dropped the statement sender, and seen the parser
\* and then the writer end after they drained their queues
C4_TerminatesWithZero ==
    <>(\/ StageFailed
       \/ /\ Exited
          /\ exit_code = 0
          /\ read_pos > Len(input)
          /\ ~stmt_tx /\ stmt_chan = <<>> /\ parser_pc = "done"
          /\ ~event_tx /\ event_chan = <<>> /\ writer_pc = "done"
          /\ OpenEncoders = {})

\* C4 witness: a run over statements of both kinds that ended with 0
C4_Witness ==
    /\ Exited
    /\ exit_code = 0
    /\ ~StageFailed
    /\ \E i, j \in 1..Len(handled) :
          handled[i].kind = "CreateTable" /\ handled[j].kind = "InsertInto"

\* C5: a worker thread that panicked never goes with an exit code of 0, and
\* once a worker thread has panicked the process does exit, with a code
\* other than 0
C5_WorkerFailureIsNonZeroExit ==
    /\ []((ParserFailed \/ WriterFailed) => exit_code # 0)
    /\ (ParserFailed \/ WriterFailed) ~> (Exited /\ exit_code > 0)

\* C5 witness: the writer panicked after the parser had ended normally, and
\* the process exited with the code of main's own panic
C5_Witness ==
    /\ Exited
    /\ parser_pc = "done"
    /\ writer_pc = "panicked"
    /\ exit_code = 101

IsCreateTable(line) == line.kind = "CreateTable"

\* the tables of the CreateTable events among lines
CreatedTables(lines) ==
    {lines[i].table_name : i \in {k \in 1..Len(lines) : IsCreateTable(lines[k])}}

\* the records of the inserts into table_name at the head of events, up to
\* the next CreateTable
RECURSIVE inserted_records(_, _, _)
inserted_records(events, table_name, schema) ==
    IF events = <<>> \/ IsCreateTable(Head(events)) THEN <<>>
    ELSE (IF Head(events).kind = "InsertInto" /\ Head(events).table_name = table_name
          THEN record_batch(schema, Head(events).rows).records
          ELSE <<>>)
         \o inserted_records(Tail(events), table_name, schema)

\* C6: after a run that ended with 0, the file of each table is a complete
\* container holding the rows inserted into the table while its encoder was
\* open since the last CreateTable of that table, in arrival order, and
\* nothing else
C6_FileHoldsRowsSinceLastCreate ==
    (Exited /\ exit_code = 0) =>
        \A i \in 1..Len(handled) :
            (/\ IsCreateTable(handled[i])
             /\ \A j \in (i + 1)..Len(handled) :
                   ~(IsCreateTable(handled[j]) /\ handled[j].table_name = handled[i].table_name))
            => /\ file_name(handled[i].table_name) \in DOMAIN files
               /\ file_valid(files[file_name(handled[i].table_name)])
               /\ file_records(files[file_name(handled[i].table_name)])
                    = inserted_records(SubSeq(handled, i + 1, Len(handled)),
                                       handled[i].table_name, handled[i].schema)

\* C7: as long as the writer has not failed there is one output file per
\* table named by the CreateTable events it has handled, and after a run
\* that ended with 0 one per table named by the statements that were sent
C7_OneFilePerCreatedTable ==
    /\ ~WriterFailed => Cardinality(DOMAIN files) = Cardinality(CreatedTables(handled))
    /\ exit_code = 0 =>
          Cardinality(DOMAIN files)
            = Cardinality(CreatedTables([i \in 1..Len(sent) |-> parse_line(sent[i]).line]))

\* C7 witness: a run that ended with 0 and wrote the files of two tables
C7_Witness ==
    /\ Exited
    /\ exit_code = 0
    /\ Cardinality(CreatedTables(handled)) = 2
    /\ Cardinality(DOMAIN files) = 2

\* C8: an InsertInto for a table other than the one being written (or with
\* no table being written) only adds a diagnostic to stderr: the writer goes
\* on receiving, and its encoder, the files and the encoder operations are
\* as they were
C8_InsertForOtherTableIsDiscarded ==
    [][(/\ writer_pc = "recv"
        /\ handled' # handled
        /\ Head(event_chan).kind = "InsertInto"
        /\ (~current_writer.some \/ current_writer.table_name # Head(event_chan).table_name))
       => /\ writer_pc' = "recv"
          /\ current_writer' = current_writer
          /\ previous_writer' = previous_writer
          /\ files' = files
          /\ enc_log' = enc_log
          /\ io_faults' = io_faults
          /\ Len(stderr') = Len(stderr) + 1]_vars

\* C8 witness: the writer has just discarded an insert for a table other than
\* the one it is writing
C8_Witness ==
    /\ writer_pc = "recv"
    /\ current_writer.some
    /\ handled # <<>>
    /\ Last(handled).kind = "InsertInto"
    /\ Last(handled).table_name # current_writer.table_name
    /\ stderr # <<>>

IsCloseOp(o) == o.op \in {"close", "close_failed"}

OpenedEncoders == {enc_log[i].id : i \in {k \in 1..Len(enc_log) : enc_log[k].op = "open"}}

ClosesOf(id) == Cardinality({k \in 1..Len(enc_log) : IsCloseOp(enc_log[k]) /\ enc_log[k].id = id})

\* C9: close is called on an encoder at most once and only after it was
\* opened, and once the writer thread has ended (normally or by a panic)
\* close has been called exactly once on every encoder it opened and none is
\* left open
C9_EveryEncoderClosedOnce ==
    /\ \A id \in OpenedEncoders : ClosesOf(id) <= 1
    /\ \A k \in 1..Len(enc_log) :
          IsCloseOp(enc_log[k]) =>
             \E j \in 1..(k - 1) : enc_log[j].op = "open" /\ enc_log[j].id = enc_log[k].id
    /\ WriterEnded =>
          /\ OpenEncoders = {}
          /\ \A id \in OpenedEncoders : ClosesOf(id) = 1

\* C9 witness: the writer thread panicked after it had opened two encoders,
\* and the last of them was closed by the unwinding
C9_Witness ==
    /\ writer_pc = "panicked"
    /\ Cardinality(OpenedEncoders) = 2
    /\ Last(enc_log).op = "close"
    /\ Last(enc_log).id = 2

\* the Lines of the statements up to the first that parse_line fails on
RECURSIVE parsed_lines(_)
parsed_lines(statements) ==
    IF statements = <<>> \/ ~parse_line(Head(statements)).ok THEN <<>>
    ELSE <<parse_line(Head(statements)).line>> \o parsed_lines(Tail(statements))

\* the writer thread run alone over lines, no output operation failing
RECURSIVE run_writer(_, _)
run_writer(w, lines) ==
    IF w.pc \in {"done", "panicked", "aborted"} THEN w
    ELSE IF w.pc = "finish_prev"
    THEN run_writer(CHOOSE v \in finish_previous(w) : TRUE, lines)
    ELSE IF lines = <<>> THEN CHOOSE v \in drop_writer(w, FALSE) : TRUE
    ELSE run_writer(CHOOSE v \in new_line(w, Head(lines)) : TRUE, Tail(lines))

\* the encoder operations of the input when the stages run one after the
\* other, each to its end
sequential_log ==
    [in \in Inputs |->
        run_writer([pc |-> "recv", current_writer |-> None, previous_writer |-> None,
                    files |-> <<>>, enc_log |-> <<>>, stderr |-> <<>>,
                    io_faults |-> MaxIoFaults],
                   parsed_lines(read_statements(in, <<>>))).enc_log]

\* C10: whatever the interleaving of the three threads, a run in which no
\* read and no output operation failed has performed, when the process
\* exits, the encoder operations of the input in their one order
C10_SameOperationsInEveryInterleaving ==
    (Exited /\ ~read_error /\ io_faults = 0) => enc_log = sequential_log[input]

(***************************************************************************)
(* The functions of the program called on their own: a call is drawn from  *)
(* a bounded set of arguments and the function applied to it once.         *)
(***************************************************************************)
MaxRows == 2
MaxTupleLen == 3

TimestampStrings ==
    {"x", "2012-01-02 12:55:22", "2012/01/02T12.55.22", "2012-01-02 12:55:22.5",
     "2012-+1-02 12:55:22", "2012-02-30 12:55:22", "2012-01-02 24:00:00", "2012-01-02",
     "2012-0a-02 12:55:22", "2000-02-29 00:00:00", "1970-01-01 00:00:00",
     "1969-12-31 23:59:59", "1999-12-31 23:59:59", "2024-03-01 00:00:01"}

\* a writer is never opened on a schema with a Boolean column (to_arrow_schema)
WriteTypes == ColumnTypes \ {"Boolean"}

WriteColumn(column_type, nullable) ==
    [column_name |-> "c", nullable |-> nullable, column_type |-> column_type]

WriteValues ==
    {CVString("x"), CVString("2012-01-02 12:55:22"), CVInteger(7), CVFloat(25),
     CVBoolean(TRUE), CVNull}

NonEmpty(seqs) == {q \in seqs : q # <<>>}

\* batches of one-value tuples for a schema of one column
OneColumnCalls ==
    {[fn |-> "write_rows", schema |-> <<WriteColumn(t, n)>>, rows |-> rows] :
        t \in WriteTypes, n \in BOOLEAN,
        rows \in NonEmpty(SeqsUpTo({<<v>> : v \in WriteValues}, MaxRows))}

\* batches over a Timestamp column, the string first, last or alone
TimestampCalls ==
    {[fn |-> "write_rows", schema |-> <<WriteColumn("Timestamp", TRUE)>>, rows |-> rows] :
        rows \in UNION {{<< <<CVString(s)>> >>,
                         << <<CVString(s)>>, <<CVNull>> >>,
                         << <<CVString("2012-01-02 12:55:22")>>, <<CVString(s)>> >>} :
                           s \in TimestampStrings}}

\* batches of tuples of every length up to MaxTupleLen, for one and two columns
LengthCalls ==
    {[fn |-> "write_rows", schema |-> schema, rows |-> rows] :
        schema \in {<<WriteColumn("Integer", TRUE)>>,
                    <<WriteColumn("Integer", TRUE), WriteColumn("String", TRUE)>>},
        rows \in NonEmpty(SeqsUpTo(
                    {SubSeq(<<CVInteger(1), CVString("x"), CVInteger(7), CVNull>>, 1, k) :
                        k \in 0..MaxTupleLen}, MaxRows))}

WriteRowsCalls == OneColumnCalls \cup TimestampCalls \cup LengthCalls

\* the sequences joined with the separator between them
RECURSIVE Intersperse(_, _)
Intersperse(seqs, sep) ==
    IF seqs = <<>> THEN <<>>
    ELSE IF Len(seqs) = 1 THEN Head(seqs)
    ELSE Head(seqs) \o sep \o Intersperse(Tail(seqs), sep)

MaxItems == 3
MaxOptions == 3

ColumnItem(name, type, options) ==
    [kind |-> "column", name |-> name, type |-> type, options |-> options, atoms |-> <<>>]

KeyItem(atoms) ==
    [kind |-> "key", name |-> "", type |-> "", options |-> <<>>, atoms |-> atoms]

\* the text of an item of a table definition
item_text(item) ==
    IF item.kind = "key" THEN item.atoms
    ELSE <<item.name, " ", item.type>>
            \o Flatten([i \in 1..Len(item.options) |-> <<" ", item.options[i]>>])

create_table_text(name, items) ==
    <<"CREATE TABLE", " ", name, " ", "(">>
        \o Intersperse([i \in 1..Len(items) |-> item_text(items[i])], <<",", " ">>)
        \o <<")", ";">>

insert_text(name, tuples) ==
    <<"INSERT INTO", " ", name, " ", "VALUES", " ">>
        \o Intersperse([r \in 1..Len(tuples) |->
                          <<"(">> \o Intersperse(tuples[r], <<",">>) \o <<")">>],
                       <<",">>)
        \o <<";">>

ParseCreate(name, items) ==
    [fn |-> "parse_line", stmt |-> "create", name |-> name, items |-> items,
     text |-> create_table_text(name, items)]

ParseInsert(name, tuples) ==
    [fn |-> "parse_line", stmt |-> "insert", name |-> name, items |-> tuples,
     text |-> insert_text(name, tuples)]

TypeAtoms ==
    {"int", "bigint", "tinyint(1)", "smallint", "int unsigned", "numeric",
     "decimal(10,2)", "varchar(255)", "char(1)", "text", "enum('x')", "longtext",
     "mediumtext", "float", "real", "double", "double precision", "date", "time",
     "datetime", "timestamp", "bool", "boolean", "json", "blob", "geometry"}

OptionAtoms == {"NULL", "NOT NULL", "PRIMARY KEY ", "UNIQUE", "DEFAULT NULL"}

\* definitions of up to MaxItems columns and key clauses, one of the columns
\* of a type parse_line has no arm for
DefinitionItems ==
    {ColumnItem("c", "int", <<>>), ColumnItem("d", "varchar(255)", <<"NOT NULL">>),
     ColumnItem("Id", "bigint", <<"NOT NULL">>), ColumnItem("k", "text", <<>>),
     ColumnItem("c", "json", <<>>),
     KeyItem(<<"KEY ", "k", "(", "c", ")">>),
     KeyItem(<<"PRIMARY KEY ", "(", "Id", ")">>),
     KeyItem(<<"UNIQUE KEY ", "k", "(", "c", ",", "d", ")">>)}

DefinitionCalls ==
    {ParseCreate("Id", items) : items \in NonEmpty(SeqsUpTo(DefinitionItems, MaxItems))}

\* one column with up to MaxOptions options
OptionCalls ==
    {ParseCreate("A", <<ColumnItem("c", "int", options)>>) :
        options \in SeqsUpTo(OptionAtoms, MaxOptions)}

\* one column of every type
TypeCalls == {ParseCreate("A", <<ColumnItem("c", type, <<>>)>>) : type \in TypeAtoms}

\* tuples of no, one and two value expressions: numbers, strings, NULL, and
\* a column name, which parse_line rejects
Tuples ==
    {<<>>, << <<"1">> >>, << <<"'x'">>, <<"NULL">> >>, << <<"NULL">>, <<"1">> >>,
     << <<"c">> >>}

TupleCalls ==
    {ParseInsert("A", tuples) : tuples \in NonEmpty(SeqsUpTo(Tuples, MaxRows))}

\* one number, with and without a unary minus
NumberCalls ==
    {ParseInsert("A", << <<e>> >>) :
        e \in {<<n>> : n \in NumberAtoms} \cup {<<"-", n>> : n \in NumberAtoms}}

ParseLineCalls ==
    DefinitionCalls \cup OptionCalls \cup TypeCalls \cup TupleCalls \cup NumberCalls

MaxLineLen == 7

\* lines of parentheses and a name, as they are and after a key word that
\* holds "KEY "
LineAtoms == {"(", ")", "c"}

CleanupKeyCalls ==
    {[fn |-> "cleanup_key", line |-> start \o line] :
        start \in {<<>>, <<"KEY ">>, <<"PRIMARY KEY ">>},
        line \in SeqsUpTo(LineAtoms, MaxLineLen - 1)}

\* the accumulator when a line arrives: empty, inside a table definition,
\* inside an insert, inside text that holds the keyword further on
Accumulators ==
    {<<>>,
     <<"CREATE TABLE", " ", "A", " ", "(">>,
     <<"INSERT INTO", " ", "A", " ", "VALUES">>,
     <<"junk", " ", "CREATE TABLE", " ", "A", " ", "(">>}

AppendedCalls ==
    {[fn |-> "appended", statement |-> statement, line |-> start \o line] :
        statement \in Accumulators,
        start \in {<<>>, <<"KEY ">>},
        line \in SeqsUpTo(LineAtoms, MaxLineLen - 3)}

Calls == WriteRowsCalls \cup ParseLineCalls \cup CleanupKeyCalls \cup AppendedCalls

\* the writer thread after new_line(CreateTable("A", schema)), nothing failed
OpenWriter(schema) ==
    CHOOSE w \in new_line([pc |-> "recv", current_writer |-> None, previous_writer |-> None,
                           files |-> <<>>, enc_log |-> <<>>, stderr |-> <<>>,
                           io_faults |-> 0],
                          LineCreateTable("A", schema)) : w.io_faults = 0

CallInit ==
    /\ input = <<>>
    /\ Started
    /\ call \in Calls
    /\ result = NoResult

Returns(value) ==
    /\ ~result.returned
    /\ result' = [returned |-> TRUE, value |-> value]
    /\ UNCHANGED <<main_vars, chan_vars, parser_vars, writer_vars, sent, handled, call>>

\* new_line(Line::InsertInto("A", rows)) on the writer of table A: write_rows
CallWriteRows ==
    /\ call.fn = "write_rows"
    /\ \E open \in {OpenWriter(call.schema)} :
          \E w \in new_line(open, LineInsertInto("A", call.rows)) : Returns(w)

CallParseLine ==
    /\ call.fn = "parse_line"
    /\ Returns(parse_line(call.text))

CallCleanupKey ==
    /\ call.fn = "cleanup_key"
    /\ Returns(cleanup_key(call.line))

\* the append of the read loop on the trimmed line
CallAppended ==
    /\ call.fn = "appended"
    /\ Returns(appended(call.statement, call.line))

CallNext ==
    \/ CallWriteRows
    \/ CallParseLine
    \/ CallCleanupKey
    \/ CallAppended

CallSpec == CallInit /\ [][CallNext]_vars

WriteRowsReturned == call.fn = "write_rows" /\ result.returned

\* the writer thread panicked in the call
Fatal == result.value.pc \in {"panicked", "aborted"}

\* the batches the call appended to the encoder
AppendedBatches ==
    LET is_write(o) == o.op = "write"
        writes == SelectSeq(result.value.enc_log, is_write)
    IN [i \in 1..Len(writes) |-> writes[i].records]

\* every tuple of the call has one value per column
FullTuples == \A r \in 1..Len(call.rows) : Len(call.rows[r]) = Len(call.schema)

AcceptedTags(column_type) ==
    CASE column_type = "String" -> {"String", "Null"}
      [] column_type = "Integer" -> {"Integer", "Null"}
      [] column_type = "Float" -> {"Float", "Integer", "Null"}
      [] column_type = "Timestamp" -> {"String", "Null"}
      [] OTHER -> {}

AllPairsAccepted ==
    \A r \in 1..Len(call.rows) : \A c \in 1..Len(call.rows[r]) :
        call.rows[r][c].tag \in AcceptedTags(call.schema[c].column_type)

ValidTimestampStrings ==
    {"2012-01-02 12:55:22", "2000-02-29 00:00:00", "1970-01-01 00:00:00"}

\* what the builders hold for a value: an integer in a Float column is the
\* float of the same value, a string in a Timestamp column is a timestamp
EncodedValue(column_type, v) ==
    IF v.tag = "Null" THEN v
    ELSE IF column_type = "Float" /\ v.tag = "Integer" THEN CVFloat(v.i * 10)
    ELSE IF column_type = "Timestamp" THEN [v EXCEPT !.tag = "Timestamp", !.s = "", !.i = @]
    ELSE v

\* C11: in a batch of full tuples a value whose tag is not one the column's
\* type takes (String: String, Null; Integer: Integer, Null; Float: Float,
\* Integer, Null; Timestamp: String, Null) makes the writer panic with
\* nothing appended; when every tag is taken the match of write_rows
\* panics on none of them, and the batch is appended with the integers of
\* Float columns widened.  What fails a batch of taken tags is outside the
\* match: a timestamp string that is no date, a null in a field that is not
\* nullable (RecordBatch::try_new), or an output operation that fails.
C11_AcceptedTypeTagPairs ==
    (WriteRowsReturned /\ FullTuples) =>
        /\ ~AllPairsAccepted => (Fatal /\ AppendedBatches = <<>>)
        /\ (/\ AllPairsAccepted
            /\ result.value.io_faults = 0
            /\ \A r \in 1..Len(call.rows) : \A c \in 1..Len(call.schema) :
                  /\ (call.schema[c].column_type = "Timestamp" /\ call.rows[r][c].tag = "String")
                        => call.rows[r][c].s \in ValidTimestampStrings
                  /\ call.rows[r][c].tag = "Null" => call.schema[c].nullable)
           => /\ ~Fatal
              /\ Len(AppendedBatches) = 1
              /\ Len(AppendedBatches[1]) = Len(call.rows)
              /\ \A r \in 1..Len(call.rows) : \A c \in 1..Len(call.schema) :
                    /\ AppendedBatches[1][r][c].tag =
                          EncodedValue(call.schema[c].column_type, call.rows[r][c]).tag
                    /\ call.schema[c].column_type # "Timestamp" =>
                          AppendedBatches[1][r][c] =
                             EncodedValue(call.schema[c].column_type, call.rows[r][c])

\* C11 witness: a batch with an integer and a float for a Float column was
\* appended, the integer as a float
C11_Witness ==
    /\ WriteRowsReturned
    /\ call.schema = <<WriteColumn("Float", FALSE)>>
    /\ call.rows = << <<CVInteger(7)>>, <<CVFloat(25)>> >>
    /\ ~Fatal
    /\ AppendedBatches = << << <<CVFloat(70)>>, <<CVFloat(25)>> >> >>

\* C12: a batch with a tuple that has fewer or more values than the schema
\* has columns makes the writer panic, and nothing is appended
C12_TupleLengthMismatchIsFatal ==
    (WriteRowsReturned /\ ~FullTuples) => (Fatal /\ AppendedBatches = <<>>)

\* the string starts with YYYY-MM-DD HH:MM:SS: digits at the positions of the
\* six fields and the separators '-', '-', ' ', ':', ':' between them
MatchesTimestampPattern(s) ==
    LET cs == chars(s)
    IN /\ Len(cs) >= 19
       /\ \A i \in {1, 2, 3, 4, 6, 7, 9, 10, 12, 13, 15, 16, 18, 19} :
              digit_value(cs[i]) >= 0
       /\ cs[5] = "-" /\ cs[8] = "-" /\ cs[11] = " " /\ cs[14] = ":" /\ cs[17] = ":"

\* the six fields of a string of the pattern name a date of the calendar and
\* a time of the day
NamesCivilDateTime(s) ==
    LET cs == chars(s)
        n(a, b) == digits_number(SubSeq(cs, a, b), 0)
    IN /\ n(6, 7) \in 1..12
       /\ n(9, 10) \in 1..days_in_month(n(1, 4), n(6, 7))
       /\ n(12, 13) < 24 /\ n(15, 16) < 60 /\ n(18, 19) < 60

\* the strings given for the timestamp columns of the call
TimestampStringsOfCall ==
    {call.rows[r][j].s : <<r, j>> \in
        {p \in (1..Len(call.rows)) \X (1..Len(call.schema)) :
            /\ p[2] <= Len(call.rows[p[1]])
            /\ call.schema[p[2]].column_type = "Timestamp"
            /\ call.rows[p[1]][p[2]].tag = "String"}}

\* C13: a string for a TIMESTAMP column that does not match the pattern
\* YYYY-MM-DD HH:MM:SS or that names no date-time of the calendar makes the
\* writer panic, and no batch with it is appended
C13_MalformedTimestampIsFatal ==
    (/\ WriteRowsReturned
     /\ \E s \in TimestampStringsOfCall :
            ~(MatchesTimestampPattern(s) /\ NamesCivilDateTime(s)))
    => (Fatal /\ AppendedBatches = <<>>)

ParseLineReturned == call.fn = "parse_line" /\ result.returned

\* the statement of the call was accepted
Accepted == result.value.ok

\* the columns the definition of the call declares, in source order
DeclaredColumns ==
    LET is_column(item) == item.kind = "column"
    IN SelectSeq(call.items, is_column)

\* C14: an accepted table definition yields CreateTable with the name of the
\* table and one column definition per declared column, in source order and
\* with the names as written; key clauses give no column
C14_SchemaIsDeclaredColumnsInOrder ==
    (ParseLineReturned /\ call.stmt = "create" /\ Accepted) =>
        /\ result.value.line.kind = "CreateTable"
        /\ result.value.line.table_name = call.name
        /\ Len(result.value.line.schema) = Len(DeclaredColumns)
        /\ \A i \in 1..Len(DeclaredColumns) :
              result.value.line.schema[i].column_name = DeclaredColumns[i].name

\* C14 witness: a definition of the columns Id and c with a key clause
\* between them was accepted with the schema Id, c
C14_Witness ==
    /\ ParseLineReturned
    /\ call.stmt = "create"
    /\ call.items = <<ColumnItem("Id", "bigint", <<"NOT NULL">>),
                      KeyItem(<<"PRIMARY KEY ", "(", "Id", ")">>),
                      ColumnItem("c", "int", <<>>)>>
    /\ Accepted
    /\ [i \in 1..2 |-> result.value.line.schema[i].column_name] = <<"Id", "c">>

\* the positions of the options NULL, NOT NULL and PRIMARY KEY of a column
DecidingPositions(options) ==
    {i \in 1..Len(options) : options[i] \in {"NULL", "NOT NULL", "PRIMARY KEY "}}

\* nullable when no option decides, else what the first deciding option says
DeclaredNullable(options) ==
    LET at == DecidingPositions(options)
    IN at = {} \/ options[CHOOSE i \in at : \A j \in at : i <= j] = "NULL"

\* C15: the first option of a column, in declared order, that is NULL, NOT
\* NULL or PRIMARY KEY decides whether the column is nullable (NULL: yes, the
\* two others: no); the options after it and the other options change
\* nothing, and a column without such an option is nullable
C15_FirstDecidingOptionWins ==
    (ParseLineReturned /\ call.stmt = "create" /\ Accepted) =>
        \A i \in 1..Len(DeclaredColumns) :
            result.value.line.schema[i].nullable
                = DeclaredNullable(DeclaredColumns[i].options)

\* C15 witness: a column declared DEFAULT NULL NOT NULL NULL is not nullable
C15_Witness ==
    /\ ParseLineReturned
    /\ call.stmt = "create"
    /\ call.items = <<ColumnItem("c", "int", <<"DEFAULT NULL", "NOT NULL", "NULL">>)>>
    /\ Accepted
    /\ ~result.value.line.schema[1].nullable

\* the table of declared types: "" for a type outside the table
TableType(type) ==
    IF type \in {"varchar(255)", "text", "char(1)", "enum('x')", "longtext", "mediumtext"}
    THEN "String"
    ELSE IF type \in {"int", "bigint", "tinyint(1)", "smallint", "int unsigned",
                      "numeric", "decimal(10,2)"}
    THEN "Integer"
    ELSE IF type \in {"float", "real", "double", "double precision"} THEN "Float"
    ELSE IF type \in {"date", "time", "datetime", "timestamp"} THEN "Timestamp"
    ELSE IF type \in {"bool", "boolean"} THEN "Boolean"
    ELSE ""

\* C16: every declared column gets the type the table gives for its declared
\* type (VARCHAR, TEXT, CHAR, ENUM, longtext, mediumtext: String; the
\* integer, NUMERIC and DECIMAL types: Integer; FLOAT, REAL, DOUBLE: Float;
\* DATE, TIME, DATETIME, TIMESTAMP: Timestamp; BOOL, BOOLEAN: Boolean), and a
\* definition with a type outside the table is an error
C16_DeclaredTypeTable ==
    (ParseLineReturned /\ call.stmt = "create") =>
        IF \E i \in 1..Len(DeclaredColumns) : TableType(DeclaredColumns[i].type) = ""
        THEN ~Accepted
        ELSE /\ Accepted
             /\ \A i \in 1..Len(DeclaredColumns) :
                   result.value.line.schema[i].column_type
                       = TableType(DeclaredColumns[i].type)

\* the value of a value expression of Tuples
TupleValue(expr) ==
    CASE expr = <<"1">> -> CVInteger(1)
      [] expr = <<"'x'">> -> CVString("x")
      [] expr = <<"NULL">> -> CVNull
      [] OTHER -> CVBail

\* C17: an accepted INSERT ... VALUES of N tuples yields InsertInto with the
\* name of the table and N rows in source order, row k holding the values of
\* the expressions of tuple k, as many and in the same order
C17_RowsAreTuplesInOrder ==
    (ParseLineReturned /\ call \in TupleCalls /\ Accepted) =>
        /\ result.value.line.kind = "InsertInto"
        /\ result.value.line.table_name = call.name
        /\ Len(result.value.line.rows) = Len(call.items)
        /\ \A k \in 1..Len(call.items) :
              /\ Len(result.value.line.rows[k]) = Len(call.items[k])
              /\ \A j \in 1..Len(call.items[k]) :
                    result.value.line.rows[k][j] = TupleValue(call.items[k][j])

\* C17 witness: VALUES ('x',NULL),() was accepted with a row of two values and
\* an empty row
C17_Witness ==
    /\ ParseLineReturned
    /\ call.stmt = "insert"
    /\ call.items = << << <<"'x'">>, <<"NULL">> >>, <<>> >>
    /\ Accepted
    /\ result.value.line.rows = << <<CVString("x"), CVNull>>, <<>> >>

\* the number literal of a call of NumberCalls and whether a minus precedes it
LiteralOfCall == Last(call.items[1][1])

MinusOfCall == Len(call.items[1][1]) = 2

\* the digits of 2^63, the magnitude of i64::MIN
I64MinMagnitude == <<"9", "2", "2", "3", "3", "7", "2", "0", "3", "6", "8", "5", "4", "7", "7", "5", "8", "0", "8">>

\* the signed value of an integer literal is in [-2^63, 2^63 - 1]
WithinI64(cs, minus) ==
    LET ds    == strip_zeros(cs)
        bound == IF minus THEN I64MinMagnitude ELSE I64MaxDigits
    IN Len(ds) < Len(bound) \/ (Len(ds) = Len(bound) /\ ~digits_less(bound, ds))

\* the literals whose value is compared have at most MaxDigits digits
MaxDigits == 3

\* C18: a number literal without a '.' yields Integer and one with a '.'
\* yields Float, with the value of the literal, negated when a unary minus
\* precedes it; this for every integer literal whose signed value is in
\* [-2^63, 2^63 - 1]
C18_NumberLiterals ==
    (ParseLineReturned /\ call \in NumberCalls) =>
        LET cs     == chars(LiteralOfCall)
            dot    == \E i \in 1..Len(cs) : cs[i] = "."
            no_dot == SelectSeq(cs, LAMBDA c : c # ".")
            number == digits_number(strip_zeros(no_dot), 0)
            signed == IF MinusOfCall THEN 0 - number ELSE number
        IN IF dot
           THEN /\ Accepted
                /\ result.value.line.rows = << <<CVFloat(signed)>> >>
           ELSE WithinI64(cs, MinusOfCall) =>
                   /\ Accepted
                   /\ result.value.line.rows[1][1].tag = "Integer"
                   /\ Len(strip_zeros(cs)) <= MaxDigits =>
                         result.value.line.rows = << <<CVInteger(signed)>> >>

CleanupKeyReturned == call.fn = "cleanup_key" /\ result.returned

\* the parentheses open after the character at position i of the line
DepthAfter(line, i) ==
    Cardinality({j \in 1..i : line[j] = "("}) - Cardinality({j \in 1..i : line[j] = ")"})

\* the positions that stay: not at depth 2 or deeper, and not the closing
\* parenthesis that takes the depth from 2 to 1
KeptPositions(line) ==
    {i \in 1..Len(line) :
        /\ DepthAfter(line, i) < 2
        /\ ~(line[i] = ")" /\ DepthAfter(line, i) = 1)}

\* the characters of the line at the positions, in order
Restriction(line, positions) ==
    [k \in 1..Cardinality(positions) |->
        line[CHOOSE i \in positions : Cardinality({j \in positions : j <= i}) = k]]

HasKey(line) == \E i \in 1..Len(line) : line[i] \in {"KEY ", "PRIMARY KEY "}

Nested(line) == \E i \in 1..Len(line) : DepthAfter(line, i) >= 2

\* C19: of a line with "KEY " cleanup_key returns the characters that are
\* not at parenthesis depth 2 or deeper and are not the closing parenthesis
\* that takes the depth from 2 to 1, in order; a line without nested
\* parentheses and a line without "KEY " are returned as they are
C19_CleanupKeyDropsNestedGroups ==
    CleanupKeyReturned =>
        /\ HasKey(call.line) =>
              result.value = Restriction(call.line, KeptPositions(call.line))
        /\ (~HasKey(call.line) \/ ~Nested(call.line)) => result.value = call.line

\* C19 witness: of KEY (c(c)) the group (c) is dropped
C19_Witness ==
    /\ CleanupKeyReturned
    /\ call.line = <<"KEY ", "(", "c", "(", "c", ")", ")">>
    /\ result.value = <<"KEY ", "(", "c", ")">>

\* the one diagnostic of the program: new_line on an insert for a table that
\* is not the one being written (parquet_writer.rs:95)
UnknownTableDiagnostic == "Received a line from an unknown table"

\* C20: when the input ends with text in the accumulator the text is not
\* sent to the parser and a warning is written; the pipeline shuts down as
\* after any other input.  Stated at the exit with code 0 of a run whose
\* accumulator is not empty.
C20_PartialStatementIsDiscardedWithWarning ==
    (main_pc = "exited" /\ exit_code = 0 /\ current_statement # <<>>) =>
        /\ \A i \in 1..Len(sent) : sent[i] # trim(current_statement)
        /\ \E i \in 1..Len(stderr) : stderr[i] # UnknownTableDiagnostic

\* the reader takes the next line of the input
ReadsLine == main_pc = "read" /\ read_pos <= Len(input) /\ read_pos' = read_pos + 1

\* the trimmed line is empty, begins with "--", or begins with "/*" and ends
\* with "*/;"
IsCommentLine(line) ==
    LET t == trim(line)
    IN \/ t = <<>>
       \/ Head(t) = "--"
       \/ Head(t) = "/*" /\ Last(t) = "*/;"

CommentOnly(lines) == \A i \in 1..Len(lines) : IsCommentLine(lines[i])

\* C21: reading a line that, trimmed, is empty, begins with "--", or begins
\* with "/*" and ends with "*/;" leaves the accumulator as it is and sends no
\* statement, wherever the line is; and a run over an input of such lines
\* only, read to its end, sends no statement, creates no file and exits
\* with 0
C21_CommentLinesAreDiscarded ==
    /\ [][(ReadsLine /\ IsCommentLine(input[read_pos])) =>
             /\ current_statement' = current_statement
             /\ sent' = sent
             /\ stmt_chan' = stmt_chan
             /\ main_pc' = "read"]_vars
    /\ [](CommentOnly(input) =>
             /\ sent = <<>>
             /\ files = <<>>
             /\ (Exited /\ ~read_error) => exit_code = 0)

\* C21 witness: the run over a line comment, a block comment and a blank
\* line has exited with 0, all lines read and no file created
C21_Witness ==
    /\ input = BlkComments
    /\ read_pos > Len(input)
    /\ Exited
    /\ exit_code = 0
    /\ sent = <<>>
    /\ files = <<>>

HasBooleanColumn(line) ==
    /\ line.kind = "CreateTable"
    /\ \E i \in 1..Len(line.schema) : line.schema[i].column_type = "Boolean"

\* the writer thread takes the next event off the event queue
WriterTakesEvent ==
    /\ writer_pc = "recv"
    /\ event_chan # <<>>
    /\ handled' = Append(handled, Head(event_chan))

\* C22: the step of the writer on a CreateTable event with a BOOLEAN column
\* ends the writer thread by a failure; it creates and opens no encoder, adds
\* no file and shortens none; the encoder that was open is taken by the teardown, which calls close on it (the call succeeds
\* unless the environment fails it), and no encoder stays open
C22_BooleanColumnIsFatalBeforeCreate ==
    [][(WriterTakesEvent /\ HasBooleanColumn(Head(event_chan))) =>
          /\ writer_pc' \in {"panicked", "aborted"}
          /\ DOMAIN files' = DOMAIN files
          /\ \A f \in DOMAIN files : Len(files'[f]) >= Len(files[f])
          /\ IF current_writer.some
             THEN /\ Len(enc_log') = Len(enc_log) + 1
                  /\ IsPrefix(enc_log, enc_log')
                  /\ IsCloseOp(Last(enc_log'))
                  /\ Last(enc_log').id = current_writer.id
                  /\ io_faults' = io_faults => Last(enc_log').op = "close"
             ELSE enc_log' = enc_log
          /\ ~current_writer'.some
          /\ ~previous_writer'.some]_vars

\* C22 witness: table B was created with a text column and its encoder was
\* open when the definition of B with a bool column arrived; the writer has
\* failed, the encoder was closed, and the file of B was created once
C22_Witness ==
    /\ Len(handled) >= 2
    /\ handled[Len(handled) - 1].kind = "CreateTable"
    /\ ~HasBooleanColumn(handled[Len(handled) - 1])
    /\ HasBooleanColumn(Last(handled))
    /\ handled[Len(handled) - 1].table_name = Last(handled).table_name
    /\ writer_pc = "panicked"
    /\ [i \in 1..Len(enc_log) |-> enc_log[i].op] = <<"create", "open", "close">>
    /\ DOMAIN files = {file_name(Last(handled).table_name)}

\* the reader has a complete statement to send and the statement queue is
\* full while the parser still holds its receiving end
ReaderFacesFullQueue ==
    /\ main_pc = "read"
    /\ read_pos <= Len(input)
    /\ ~IsCommentLine(input[read_pos])
    /\ ends_with_semicolon(appended(current_statement, trim(input[read_pos])))
    /\ stmt_rx
    /\ Len(stmt_chan) = StatementQueueCap

\* the parser has an event to send and the event queue is full while the
\* writer still holds its receiving end
ParserFacesFullQueue ==
    /\ parser_pc = "send"
    /\ event_rx
    /\ Len(event_chan) = EventQueueCap

\* C23: the statement queue never holds more than its capacity and the event
\* queue never more than its own (StatementQueueCap and EventQueueCap stand
\* for the 1000 and 100 of the program); a queue changes only by a producer
\* appending its message to a queue that is not full or by the consumer
\* taking the oldest message; a producer facing a full queue keeps its
\* message and stays where it is
C23_QueuesAreBoundedAndBlockProducers ==
    /\ [](Len(stmt_chan) <= StatementQueueCap /\ Len(event_chan) <= EventQueueCap)
    /\ [][/\ \/ stmt_chan' = stmt_chan
             \/ /\ Len(stmt_chan) < StatementQueueCap
                /\ sent' # sent
                /\ stmt_chan' = Append(stmt_chan, Last(sent'))
             \/ /\ stmt_chan # <<>>
                /\ stmt_chan' = Tail(stmt_chan)
                /\ parser_pc = "recv"
                /\ parser_pc' \in {"send", "panicked"}
          /\ \/ event_chan' = event_chan
             \/ /\ Len(event_chan) < EventQueueCap
                /\ parser_pc = "send"
                /\ event_chan' = Append(event_chan, parser_line)
             \/ /\ event_chan # <<>>
                /\ event_chan' = Tail(event_chan)
                /\ handled' = Append(handled, Head(event_chan))]_vars
    /\ [][/\ ReaderFacesFullQueue =>
                /\ read_pos' = read_pos
                /\ current_statement' = current_statement
                /\ sent' = sent
          /\ ParserFacesFullQueue =>
                /\ parser_pc' = "send"
                /\ parser_line' = parser_line]_vars

\* C23 witness: the writer has not taken the event in the full event queue,
\* the parser waits to send the next one, the statement queue is full and
\* the reader waits to send a further statement
C23_Witness ==
    /\ writer_pc \in {"recv", "finish_prev"}
    /\ ParserFacesFullQueue
    /\ ReaderFacesFullQueue

\* the lines the reader has processed
ProcessedLines == SubSeq(input, 1, read_pos - 1)

\* what a line adds to the accumulator acc: the trimmed line, passed through
\* the key filter when filtered is set and acc begins a table definition
Piece(acc, line, filtered) ==
    IF filtered /\ acc # <<>> /\ Head(acc) = "CREATE TABLE" THEN cleanup_key(trim(line))
    ELSE trim(line)

\* the reassembly as the claim states it: comment lines are skipped, every
\* other line adds its piece to the accumulator, and an accumulator that ends
\* with ';' is emitted trimmed and emptied
RECURSIVE Reassembled(_, _, _, _)
Reassembled(lines, acc, emitted, filtered) ==
    IF lines = <<>> THEN [emitted |-> emitted, accumulator |-> acc]
    ELSE IF IsCommentLine(Head(lines))
    THEN Reassembled(Tail(lines), acc, emitted, filtered)
    ELSE LET grown == acc \o Piece(acc, Head(lines), filtered)
         IN IF grown # <<>> /\ Last(grown) \in SemicolonAtoms
            THEN Reassembled(Tail(lines), <<>>, Append(emitted, trim(grown)), filtered)
            ELSE Reassembled(Tail(lines), grown, emitted, filtered)

AccumulatorEndsStatement == current_statement # <<>> /\ Last(current_statement) \in SemicolonAtoms

\* C24 as stated: while the reader is in its loop, the statements emitted so
\* far and the accumulator are those of the reassembly in which every
\* non-discarded line is appended as it is, and the accumulator does not end
\* with ';'
C24_Original ==
    main_pc = "read" =>
        /\ sent = Reassembled(ProcessedLines, <<>>, <<>>, FALSE).emitted
        /\ current_statement = Reassembled(ProcessedLines, <<>>, <<>>, FALSE).accumulator
        /\ ~AccumulatorEndsStatement

\* C24, amended: while the reader is in its loop, the statements emitted so
\* far and the accumulator are those of the reassembly in which a line of a
\* table definition after its first is appended as the key filter returns
\* it and every other non-discarded line as it is, and the accumulator does
\* not end with ';'; the reader leaves the loop on a line only when the send
\* of the completed statement fails, and then emits nothing
C24_StatementsAreReassembledLines ==
    /\ [](main_pc = "read" =>
            /\ sent = Reassembled(ProcessedLines, <<>>, <<>>, TRUE).emitted
            /\ current_statement = Reassembled(ProcessedLines, <<>>, <<>>, TRUE).accumulator
            /\ ~AccumulatorEndsStatement)
    /\ [][(ReadsLine /\ main_pc' # "read") =>
            /\ ~stmt_rx
            /\ AccumulatorEndsStatement'
            /\ sent' = sent]_vars

\* C24 witness: a table definition with a key line the filter changed has
\* been emitted and the first line of the next statement is in the
\* accumulator
C24_Witness ==
    /\ main_pc = "read"
    /\ Len(sent) = 1
    /\ sent # Reassembled(ProcessedLines, <<>>, <<>>, FALSE).emitted
    /\ current_statement # <<>>

AppendedReturned == call.fn = "appended" /\ result.returned

\* the line as the key-normalization filter leaves it
Normalized(line) ==
    IF HasKey(line) THEN Restriction(line, KeptPositions(line)) ELSE line

BeginsTableDefinition(acc) == acc # <<>> /\ Head(acc) = "CREATE TABLE"

\* C25: the accumulator after a line is appended is the accumulator before
\* followed by the line as it is, unless the accumulator before begins with
\* "CREATE TABLE": then it is followed by the line as the key-normalization
\* filter leaves it.  So the first line of a statement and every line of an
\* insert are appended as they are, also with "KEY " and nested parentheses
\* in them
C25_FilterOnlyInsideTableDefinition ==
    AppendedReturned =>
        /\ ~BeginsTableDefinition(call.statement) =>
              result.value = call.statement \o call.line
        /\ BeginsTableDefinition(call.statement) =>
              result.value = call.statement \o Normalized(call.line)

\* C25 witness: a line of an insert that the filter would change, with
\* "KEY " and nested parentheses, was appended as it is
C25_Witness ==
    /\ AppendedReturned
    /\ call.statement = <<"INSERT INTO", " ", "A", " ", "VALUES">>
    /\ call.line = <<"KEY ", "(", "(", "c", ")">>
    /\ Normalized(call.line) # call.line
    /\ result.value = call.statement \o call.line

\* the call has a NULL among its values
HasNullValue ==
    \E r \in 1..Len(call.rows) : \E c \in 1..Len(call.rows[r]) : call.rows[r][c].tag = "Null"

\* C26: a batch of full tuples whose tags the columns' types take, with a
\* NULL among them and every timestamp string a date, is appended to the
\* encoder without a panic, the NULLs as null entries, whether the columns
\* are nullable or not
C26_NullIsAcceptedWhateverNullability ==
    (/\ WriteRowsReturned
     /\ FullTuples
     /\ AllPairsAccepted
     /\ HasNullValue
     /\ result.value.io_faults = 0
     /\ \A r \in 1..Len(call.rows) : \A c \in 1..Len(call.schema) :
           (call.schema[c].column_type = "Timestamp" /\ call.rows[r][c].tag = "String")
              => call.rows[r][c].s \in ValidTimestampStrings)
    => /\ ~Fatal
       /\ Len(AppendedBatches) = 1
       /\ Len(AppendedBatches[1]) = Len(call.rows)
       /\ \A r \in 1..Len(call.rows) : \A c \in 1..Len(call.schema) :
             call.rows[r][c].tag = "Null" => AppendedBatches[1][r][c].tag = "Null"

\* the calendar, counted day by day from 1970-01-01
LeapYear(y) == y % 400 = 0 \/ (y % 4 = 0 /\ y % 100 # 0)

YearLength(y) == IF LeapYear(y) THEN 366 ELSE 365

MonthLengths(y) ==
    <<31, IF LeapYear(y) THEN 29 ELSE 28, 31, 30, 31, 30, 31, 31, 30, 31, 30, 31>>

\* the days from 1970-01-01 to the first day of year y
RECURSIVE DaysToYear(_)
DaysToYear(y) ==
    IF y = 1970 THEN 0
    ELSE IF y > 1970 THEN DaysToYear(y - 1) + YearLength(y - 1)
    ELSE DaysToYear(y + 1) - YearLength(y)

\* the days from the first day of year y to the first day of its month m
RECURSIVE DaysToMonth(_, _)
DaysToMonth(y, m) ==
    IF m = 1 THEN 0 ELSE DaysToMonth(y, m - 1) + MonthLengths(y)[m - 1]

\* the seconds from 1970-01-01 00:00:00 UTC to the date-time that a string
\* YYYY-MM-DD HH:MM:SS names in UTC
EpochSeconds(s) ==
    LET cs == chars(s)
        n(a, b) == digits_number(SubSeq(cs, a, b), 0)
    IN ((DaysToYear(n(1, 4)) + DaysToMonth(n(1, 4), n(6, 7)) + (n(9, 10) - 1)) * 24
           + n(12, 13)) * 3600 + n(15, 16) * 60 + n(18, 19)

\* the string is YYYY-MM-DD HH:MM:SS and names a date-time of the calendar
ValidTimestamp(s) ==
    /\ Len(chars(s)) = 19
    /\ MatchesTimestampPattern(s)
    /\ NamesCivilDateTime(s)

\* C27: the value appended for a string YYYY-MM-DD HH:MM:SS of a TIMESTAMP
\* column that names a date-time of the calendar is the number of seconds
\* from 1970-01-01 00:00:00 UTC to that date-time in UTC; and a batch of
\* such strings only is appended unless an output operation fails
C27_TimestampIsUtcEpochSeconds ==
    (WriteRowsReturned /\ FullTuples) =>
        /\ Len(AppendedBatches) = 1 =>
              \A r \in 1..Len(call.rows) : \A c \in 1..Len(call.schema) :
                 (/\ call.schema[c].column_type = "Timestamp"
                  /\ call.rows[r][c].tag = "String"
                  /\ ValidTimestamp(call.rows[r][c].s))
                 => AppendedBatches[1][r][c] = CVTimestamp(EpochSeconds(call.rows[r][c].s))
        /\ (/\ \A r \in 1..Len(call.rows) : \A c \in 1..Len(call.schema) :
                 /\ call.schema[c].column_type = "Timestamp"
                 /\ call.rows[r][c].tag = "String"
                 /\ ValidTimestamp(call.rows[r][c].s)
            /\ result.value.io_faults = 0)
           => (~Fatal /\ Len(AppendedBatches) = 1)

\* C27 witness: 2012-01-02 12:55:22 was appended as 1325508922 and the last
\* second of 1969 as -1
C27_Witness ==
    /\ WriteRowsReturned
    /\ call.rows = << <<CVString("2012-01-02 12:55:22")>>, <<CVString("1969-12-31 23:59:59")>> >>
    /\ ~Fatal
    /\ AppendedBatches = << << <<CVTimestamp(1325508922)>>, <<CVTimestamp(-1)>> >> >>

ParserEnded == parser_pc \in {"done", "panicked"}

\* the reader's next line completes a statement, which it sends
ReaderSends ==
    /\ main_pc = "read"
    /\ read_pos <= Len(input)
    /\ ~IsCommentLine(input[read_pos])
    /\ ends_with_semicolon(appended(current_statement, trim(input[read_pos])))

\* C28: while the process runs, a parser that has an event to send after
\* the writer thread has ended is not blocked, and its send panics; a reader
\* in its loop after the parser thread has ended is not blocked, and its send
\* fails: it returns with 1; a writer waiting on the event queue whose
\* sender is dropped is not blocked, and ends once the queue is empty; and
\* the process exits
C28_NoThreadBlocksForever ==
    /\ [](Running =>
            /\ (parser_pc = "send" /\ WriterEnded) => ENABLED ParserStep
            /\ (main_pc = "read" /\ ParserEnded) => ENABLED MainStep
            /\ (writer_pc = "recv" /\ ~event_tx) => ENABLED WriterStep)
    /\ [][/\ (parser_pc = "send" /\ WriterEnded /\ parser_pc' # "send")
                => parser_pc' = "panicked"
          /\ (ReaderSends /\ ParserEnded /\ read_pos' # read_pos)
                => (main_pc' = "returning" /\ exit_code' = 1 /\ sent' = sent)
          /\ (writer_pc = "recv" /\ ~event_tx /\ event_chan = <<>> /\ writer_pc' # "recv")
                => WriterEnded']_vars
    /\ <>Exited

\* C28 witness: every statement sent was parsed, the writer thread panicked,
\* the parser panicked on its send, the reader's send failed, and the
\* process has exited
C28_Witness ==
    /\ Exited
    /\ \A i \in 1..Len(sent) : parsed_statements[sent[i]].ok
    /\ writer_pc = "panicked"
    /\ parser_pc = "panicked"
    /\ exit_code = 1
    /\ ~read_error

====
